---- MODULE Spec2Model ----
(***************************************************************************)
(* A model of timeseries-generator: the factors (BaseFactor and its        *)
(* variants) and the Generator that merges their tables.                   *)
(*                                                                         *)
(* Dates are day numbers, day 0 being 1970-01-01 (a Thursday).  Numbers    *)
(* are exact rationals [n, d] in lowest terms.  A dict is a sequence of    *)
(* <<key, value>> pairs in insertion order, an Optional is <<>> (None) or  *)
(* <<v>>.  A DataFrame is [cols, rows]: the column names in order and the  *)
(* rows in order, each row a function from column name to cell.            *)
(***************************************************************************)
EXTENDS Integers, Sequences, FiniteSets, TLC

VARIABLES
    obj,         \* the factor objects: id -> attributes (BaseFactor and subclass fields)
    factors,     \* Generator._factors: a set of factor objects (by identity)
    features,    \* Generator._features
    date_range,  \* Generator._date_range
    base_value,  \* Generator._base_value
    ts,          \* Generator._ts: None or the last generated table
    rng,         \* position of the process-wide random source
    ret,         \* outcome of the last call: what was called, with what, and what it gave
    calls,       \* the number of Generator operations called so far
    threads      \* the runs of generate() that threads execute side by side: their locals

vars == <<obj, factors, features, date_range, base_value, ts, rng, ret, calls, threads>>

-----------------------------------------------------------------------------
(* Bounds of the model *)

\* the last day number offered as a start or end date
MaxDay == 3
\* days per calendar month and months per calendar year of the model's calendar
MonthLen == 2
YearMonths == 2
\* the number of Generator operations in one behaviour
MaxOps == 2
\* the number of factors a Generator is constructed with
MaxFactors == 2

YearLen == MonthLen * YearMonths

-----------------------------------------------------------------------------
(* Python values *)

None == <<>>
Some(v) == <<v>>
IsNone(o) == o = <<>>
The(o) == o[1]

Range(s) == {s[i] : i \in 1..Len(s)}

\* dict helpers
Keys(d) == [i \in 1..Len(d) |-> d[i][1]]
Values(d) == [i \in 1..Len(d) |-> d[i][2]]
HasKey(d, k) == \E i \in 1..Len(d) : d[i][1] = k
Get(d, k) == d[CHOOSE i \in 1..Len(d) : d[i][1] = k][2]

RECURSIVE Flatten(_)
Flatten(ss) == IF ss = <<>> THEN <<>> ELSE Head(ss) \o Flatten(Tail(ss))

RECURSIVE SelectIdx(_, _, _)
\* the indices i of 1..n (ascending) for which P[i] holds
SelectIdx(P, i, n) ==
    IF i > n THEN <<>>
    ELSE (IF P[i] THEN <<i>> ELSE <<>>) \o SelectIdx(P, i + 1, n)

IndexOf(s, x) == CHOOSE i \in 1..Len(s) : s[i] = x

\* exact arithmetic
Abs(x) == IF x < 0 THEN -x ELSE x

RECURSIVE Gcd(_, _)
Gcd(a, b) == IF b = 0 THEN a ELSE Gcd(b, a % b)

Rat(n, d) ==
    LET s == IF d < 0 THEN -1 ELSE 1
        g == Gcd(Abs(n), Abs(d))
    IN  [n |-> (s * n) \div g, d |-> (s * d) \div g]

RInt(i) == [n |-> i, d |-> 1]
ROne == RInt(1)
RZero == RInt(0)
RAdd(a, b) == Rat(a.n * b.d + b.n * a.d, a.d * b.d)
RSub(a, b) == Rat(a.n * b.d - b.n * a.d, a.d * b.d)
RMul(a, b) == Rat(a.n * b.n, a.d * b.d)
RDiv(a, b) == Rat(a.n * b.d, a.d * b.n)
RLeq(a, b) == a.n * b.d <= b.n * a.d

RECURSIVE RProd(_)
RProd(s) == IF s = <<>> THEN ROne ELSE RMul(Head(s), RProd(Tail(s)))

\* Python truth of an optional number and of an optional dict
TruthyNum(o) == ~IsNone(o) /\ The(o) # RZero
TruthyDict(o) == ~IsNone(o) /\ The(o) # <<>>

-----------------------------------------------------------------------------
(* pandas: DataFrames *)

DataFrame(cols, rows) == [cols |-> cols, rows |-> rows]
EmptyFrame == DataFrame(<<>>, <<>>)

\* a row from the cells in column order
Row(cols, cells) == [c \in Range(cols) |-> cells[IndexOf(cols, c)]]

\* the outcome of a call that may raise: err = "" and the value, or the exception
Ok(v) == [err |-> "", val |-> v]
Raise(e) == [err |-> e, val |-> EmptyFrame]

\* itertools.product(*lists): the last list varies fastest
RECURSIVE product(_)
product(lists) ==
    IF lists = <<>> THEN << <<>> >>
    ELSE LET rest == product(Tail(lists))
             h == Head(lists)
         IN  Flatten([i \in 1..Len(h) |-> [j \in 1..Len(rest) |-> <<h[i]>> \o rest[j]]])

\* DataFrame.drop(columns, axis=1)
Drop(df, dropped) ==
    LET keep == SelectIdx([i \in 1..Len(df.cols) |-> df.cols[i] \notin dropped], 1, Len(df.cols))
        cols == [i \in 1..Len(keep) |-> df.cols[keep[i]]]
    IN  DataFrame(cols, [r \in 1..Len(df.rows) |-> [c \in Range(cols) |-> df.rows[r][c]]])

\* DataFrame[mask]: the rows whose index is selected, in order
Filter(df, mask) ==
    LET keep == SelectIdx(mask, 1, Len(df.rows))
    IN  DataFrame(df.cols, [i \in 1..Len(keep) |-> df.rows[keep[i]]])

\* pandas.concat of frames with the same columns
Concat(dfs) ==
    IF dfs = <<>> THEN EmptyFrame
    ELSE DataFrame(dfs[1].cols, Flatten([i \in 1..Len(dfs) |-> dfs[i].rows]))

\* the column names merge gives the non-key columns of one side
Suffixed(cols, on, other, suffix) ==
    [i \in 1..Len(cols) |->
        IF cols[i] \notin on /\ cols[i] \in Range(other) THEN cols[i] \o suffix ELSE cols[i]]

\* DataFrame.merge(right, how, on) followed, for how = "left", by fillna(fill):
\* every left row in order, once per matching right row in order; a left row
\* without a match is kept (how = "left", right cells NaN and then filled) or
\* dropped (how = "inner").  A key that is not a column of both sides raises.
merge(left, right, how, on, fill) ==
    IF \E k \in on : k \notin Range(left.cols) \/ k \notin Range(right.cols)
    THEN Raise("KeyError")
    ELSE
    LET lcols == Suffixed(left.cols, on, right.cols, "_x")
        rix == SelectIdx([i \in 1..Len(right.cols) |-> right.cols[i] \notin on], 1, Len(right.cols))
        rsrc == [i \in 1..Len(rix) |-> right.cols[rix[i]]]
        rcols == Suffixed(rsrc, on, left.cols, "_y")
        cols == lcols \o rcols
        Joined(l, r) ==
            [c \in Range(cols) |->
                IF c \in Range(lcols) THEN l[left.cols[IndexOf(lcols, c)]]
                ELSE r[rsrc[IndexOf(rcols, c)]]]
        Unmatched(l) ==
            [c \in Range(cols) |->
                IF c \in Range(lcols) THEN l[left.cols[IndexOf(lcols, c)]] ELSE fill]
        Matches(l) ==
            SelectIdx([j \in 1..Len(right.rows) |-> \A k \in on : right.rows[j][k] = l[k]],
                      1, Len(right.rows))
        Out(l) ==
            LET m == Matches(l)
            IN  IF m # <<>> THEN [j \in 1..Len(m) |-> Joined(l, right.rows[m[j]])]
                ELSE IF how = "left" THEN <<Unmatched(l)>>
                ELSE <<>>
    IN  Ok(DataFrame(cols, Flatten([i \in 1..Len(left.rows) |-> Out(left.rows[i])])))

\* utils.get_cartesian_product: the merge of the two frames on a constant key
\* column, i.e. every row of df1 in order next to every row of df2 in order
get_cartesian_product(df1, df2) ==
    DataFrame(df1.cols \o df2.cols,
              Flatten([i \in 1..Len(df1.rows) |->
                  [j \in 1..Len(df2.rows) |-> df1.rows[i] @@ df2.rows[j]]]))

-----------------------------------------------------------------------------
(* The calendar *)

\* the day of the week counted from Sunday = 0
dayofweek_from_sunday(d) == (d + 4) % 7

\* pandas dayofweek, Monday = 0 .. Sunday = 6; day 0 is a Thursday
dayofweek(d) == (d + 3) % 7
year(d) == d \div YearLen

\* pandas.date_range(start, end) is closed on both sides;
\* date_range(start, periods = n) has n days
pd_date_range(start, end) == [i \in 1..(IF end < start THEN 0 ELSE end - start + 1) |-> start + i - 1]
pd_date_range_periods(start, periods) == [i \in 1..periods |-> start + i - 1]

-----------------------------------------------------------------------------
(* The process-wide random source (numpy's global state).  A call that      *)
(* draws n numbers takes the next n of the stream and advances it by n.     *)

RandomSource == <<0, 2, 1, 3, 3, 0, 1>>

raw(r, k) == RandomSource[((r + k) % Len(RandomSource)) + 1]
\* numpy.random.random(n)[k]: uniform on [0, 1)
random(r, k) == Rat(raw(r, k), 4)
\* numpy.random.randn(n)[k]
randn(r, k) == RInt(raw(r, k) - 1)
advance(r, n) == (r + n) % Len(RandomSource)

-----------------------------------------------------------------------------
(* base_factor.py *)

DefaultPeriods == 50

\* BaseFactor.__init__
BaseFactor(col_name, fs, date_col_name, apply_to_all) ==
    LET feats == IF IsNone(fs) THEN <<>> ELSE The(fs)
    IN  IF apply_to_all /\ feats # <<>> THEN Raise("AttributeError")
        ELSE Ok([col_name |-> col_name, features |-> feats,
                 date_col_name |-> date_col_name, apply_to_all |-> apply_to_all])

\* BaseFactor.get_datetime_index: the days of the index
get_datetime_index(start_date, end_date) ==
    IF ~IsNone(end_date) THEN pd_date_range(start_date, The(end_date))
    ELSE pd_date_range_periods(start_date, DefaultPeriods)

\* DatetimeIndex.to_frame(index=False, name=date_col_name)
to_frame(dr, name) == DataFrame(<<name>>, [i \in 1..Len(dr) |-> (name :> dr[i])])

\* the selection "date >= start_date [and date < end_date]" that WeekdayFactor,
\* ExternalFactor and HolidayFactor apply to their table
DateSel(df, col, start_date, end_date) ==
    Filter(df, [i \in 1..Len(df.rows) |->
        /\ df.rows[i][col] >= start_date
        /\ (IsNone(end_date) \/ df.rows[i][col] < The(end_date))])

\* df[col_name] = values, as a new last column
Assign(df, col, values) ==
    DataFrame(df.cols \o <<col>>, [i \in 1..Len(df.rows) |-> df.rows[i] @@ (col :> values[i])])

-----------------------------------------------------------------------------
(* linear_trend.py *)

\* a record of per-feature-value parameters lacks all of the names
Lacks_all(rec, names) == \A k \in names : ~HasKey(rec, k)

\* a record of per-feature-value parameters lacks one of the names
Lacks(rec, names) == \E k \in names : ~HasKey(rec, k)

\* LinearTrend.__init__
LinearTrend(coef, offset, feature, feature_values, col_name) ==
    IF ~(\/ (~IsNone(coef) /\ ~IsNone(offset) /\ IsNone(feature) /\ IsNone(feature_values))
         \/ (IsNone(coef) /\ IsNone(offset) /\ ~IsNone(feature) /\ ~IsNone(feature_values)))
    THEN Raise("AttributeError")
    ELSE IF ~IsNone(feature) /\ The(feature) # ""
            /\ \E i \in 1..Len(The(feature_values)) :
                  Lacks(The(feature_values)[i][2], {"coef", "offset"})
    THEN Raise("AttributeError")
    ELSE
    LET fs == IF ~IsNone(feature) /\ The(feature) # ""
              THEN Some(<< <<The(feature), Keys(The(feature_values))>> >>)
              ELSE None
        base == BaseFactor(col_name, fs, "date", FALSE)
    IN  Ok(base.val @@ [kind |-> "LinearTrend", coef |-> coef, offset |-> offset,
                        feature |-> feature, feature_values |-> feature_values])

\* the outcome of a setter: the error it raised, if any, and the object afterwards
Set(o) == [err |-> "", obj |-> o]
Refuse(e, o) == [err |-> e, obj |-> o]

\* LinearTrend.coef (setter): "if self._feature_values" is the truth value of
\* the dict, false for None and for an empty dict
LinearTrend_set_coef(o, value) ==
    IF TruthyDict(o.feature_values) THEN Refuse("ValueError", o)
    ELSE Set([o EXCEPT !.coef = value])

\* LinearTrend.offset (setter)
LinearTrend_set_offset(o, value) ==
    IF TruthyDict(o.feature_values) THEN Refuse("ValueError", o)
    ELSE Set([o EXCEPT !.offset = value])

\* LinearTrend.feature and SinusoidalFactor.feature (setter)
set_feature(o, feature) == Set([o EXCEPT !.feature = feature])

\* LinearTrend.feature_values (setter): "if self._coef or self._offset" is
\* the truth value of the numbers, false for None and for 0;
\* feature_values.values() of None raises AttributeError
LinearTrend_set_feature_values(o, feature_values) ==
    IF TruthyNum(o.coef) \/ TruthyNum(o.offset) THEN Refuse("ValueError", o)
    ELSE IF IsNone(feature_values) THEN Refuse("AttributeError", o)
    ELSE IF \E i \in 1..Len(The(feature_values)) :
                Lacks(The(feature_values)[i][2], {"coef", "offset"})
    THEN Refuse("AttributeError", o)
    ELSE Set([o EXCEPT !.feature_values = feature_values])

\* some record of the dict has one of the names missing
AnyLacks(fv, names) == \E i \in 1..Len(fv) : \E k \in names : ~HasKey(fv[i][2], k)

\* the column a DataFrame gets for the key self._feature: None is a column
\* label of its own
ColumnName(feature) == IF IsNone(feature) THEN "None" ELSE The(feature)

\* LinearTrend.generate
LinearTrend_generate(o, start_date, end_date, r) ==
    LET days == get_datetime_index(start_date, end_date)
        dr == to_frame(days, o.date_col_name)
        N == Len(days)
    IN  IF N = 0 THEN Raise("IndexError") @@ [rng |-> r]
        ELSE IF TruthyDict(o.feature_values) /\ AnyLacks(The(o.feature_values), {"coef", "offset"})
        THEN \* feat["coef"], feat["offset"] of a record without the key
             Raise("KeyError") @@ [rng |-> r]
        ELSE IF ~IsNone(o.feature_values) /\ The(o.feature_values) # <<>>
        THEN
            LET fv == The(o.feature_values)
                start_date_ts == dr.rows[1][o.date_col_name]
                df == DataFrame(<<ColumnName(o.feature), "coef", "offset">>,
                        [i \in 1..Len(fv) |->
                            Row(<<ColumnName(o.feature), "coef", "offset">>,
                                <<fv[i][1], Get(fv[i][2], "coef"), Get(fv[i][2], "offset")>>)])
                cp == get_cartesian_product(dr, df)
                get_factor_col(row) ==
                    RAdd(RAdd(RMul(RDiv(row["coef"], RInt(N)),
                                   RInt(row[o.date_col_name] - start_date_ts)),
                              ROne),
                         row["offset"])
                factor_df == Assign(cp, o.col_name,
                                    [i \in 1..Len(cp.rows) |-> get_factor_col(cp.rows[i])])
            IN  Ok(Drop(factor_df, {"coef", "offset"})) @@ [rng |-> r]
        ELSE IF IsNone(o.coef) \/ IsNone(o.offset) THEN Raise("TypeError") @@ [rng |-> r]
        ELSE
            \* dr.join(df): row i of the index next to value i
            Ok(Assign(dr, o.col_name,
                      [i \in 1..N |->
                          RAdd(RAdd(RMul(RDiv(The(o.coef), RInt(N)), RInt(i - 1)), ROne),
                               The(o.offset))])) @@ [rng |-> r]

-----------------------------------------------------------------------------
(* weekday_factor.py *)

\* WeekdayFactor.__init__
WeekdayFactor(factor_values, col_name, intensity_scale) ==
    LET fv == IF IsNone(factor_values)
              THEN << <<4, Rat(115, 100)>>, <<5, Rat(13, 10)>>, <<6, Rat(13, 10)>> >>
              ELSE The(factor_values)
        base == BaseFactor(col_name, None, "date", FALSE)
    IN  Ok(base.val @@ [kind |-> "WeekdayFactor", factor_values |-> fv,
                        intensity_scale |-> intensity_scale])

\* WeekdayFactor.generate
WeekdayFactor_generate(o, start_date, end_date, r) ==
    LET days == get_datetime_index(start_date, end_date)
        df == to_frame(days, o.date_col_name)
        value(day_number) ==
            RMul(IF HasKey(o.factor_values, day_number)
                 THEN Get(o.factor_values, day_number) ELSE ROne,
                 o.intensity_scale)
        valued == Assign(df, o.col_name,
                         [i \in 1..Len(days) |-> value(dayofweek(days[i]))])
    IN  Ok(DateSel(valued, o.date_col_name, start_date, end_date)) @@ [rng |-> r]

-----------------------------------------------------------------------------
(* random_feature_factor.py *)

\* RandomFeatureFactor.__init__
RandomFeatureFactor(feature, feature_values, min_factor_value, max_factor_value, col_name) ==
    LET base == BaseFactor(col_name, Some(<< <<feature, feature_values>> >>), "date", FALSE)
    IN  IF ~RLeq(min_factor_value, max_factor_value) THEN Raise("ValueError")
        ELSE Ok(base.val @@ [kind |-> "RandomFeatureFactor", feature |-> feature,
                             feature_values |-> feature_values,
                             min_factor_value |-> min_factor_value,
                             max_factor_value |-> max_factor_value])

\* generate with one draw per row of the table
RandomFeatureFactor_generate_per_row(o, start_date, end_date, r) ==
    LET dr == to_frame(get_datetime_index(start_date, end_date), o.date_col_name)
        df == DataFrame(<<o.feature>>,
                        [k \in 1..Len(o.feature_values) |-> (o.feature :> o.feature_values[k])])
        cp == get_cartesian_product(dr, df)
        n == Len(cp.rows)
    IN  Ok(Assign(cp, o.col_name,
                  [i \in 1..n |->
                      RAdd(o.min_factor_value,
                           RMul(RSub(o.max_factor_value, o.min_factor_value),
                                random(r, i - 1)))]))
            @@ [rng |-> advance(r, n)]

\* RandomFeatureFactor.generate
RandomFeatureFactor_generate(o, start_date, end_date, r) ==
    LET dr == to_frame(get_datetime_index(start_date, end_date), o.date_col_name)
        n == Len(o.feature_values)
        feat_factor(k) ==
            RAdd(o.min_factor_value,
                 RMul(RSub(o.max_factor_value, o.min_factor_value), random(r, k - 1)))
        factor_df == DataFrame(<<o.feature, o.col_name>>,
                        [k \in 1..n |-> Row(<<o.feature, o.col_name>>,
                                            <<o.feature_values[k], feat_factor(k)>>)])
    IN  Ok(get_cartesian_product(dr, factor_df)) @@ [rng |-> advance(r, n)]

-----------------------------------------------------------------------------
(* sinusoidal_factor.py *)

VARIABLES_ == {"wavelength", "amplitude", "phase", "mean"}

\* numpy.sin(2 * pi * x) on the quarter turns, where it is exact
sin2pi(x) ==
    LET k == (x.n * (4 \div x.d)) % 4
    IN  CASE k = 0 -> RZero
          [] k = 1 -> ROne
          [] k = 2 -> RZero
          [] k = 3 -> RInt(-1)

\* SinusoidalFactor.__init__
SinusoidalFactor(wavelength, amplitude, phase, mean, col_name, date_col_name, feature, feature_values) ==
    IF IsNone(feature) # IsNone(feature_values) THEN Raise("AttributeError")
    ELSE IF ~IsNone(feature) /\ The(feature) # ""
            /\ \E i \in 1..Len(The(feature_values)) :
                  Lacks(The(feature_values)[i][2], VARIABLES_)
    THEN Raise("AttributeError")
    ELSE
    LET fs == IF ~IsNone(feature) /\ The(feature) # ""
              THEN Some(<< <<The(feature), Keys(The(feature_values))>> >>)
              ELSE None
        base == BaseFactor(col_name, fs, date_col_name, FALSE)
    IN  Ok(base.val @@ [kind |-> "SinusoidalFactor", wavelength |-> wavelength,
                        amplitude |-> amplitude, phase |-> phase, mean |-> mean,
                        feature |-> feature, feature_values |-> feature_values])

\* SinusoidalFactor.feature_values (setter): the check maps over the dict
\* itself, that is over its keys, and asks each key (a string) for .keys(),
\* which raises AttributeError for the first key; None is not iterable
SinusoidalFactor_set_feature_values(o, values) ==
    IF IsNone(values) THEN Refuse("TypeError", o)
    ELSE IF The(values) # <<>> THEN Refuse("AttributeError", o)
    ELSE Set([o EXCEPT !.feature_values = values])

\* the curve with the first day counted as day 1
Sinusoid_from_one(amplitude, phase, wavelength, mean, t) ==
    RAdd(RMul(amplitude, sin2pi(RDiv(RAdd(RInt(t + 1), phase), wavelength))), mean)

\* y(t) = amplitude * sin(2 * pi * (t + phase) / wavelength) + mean
Sinusoid(amplitude, phase, wavelength, mean, t) ==
    RAdd(RMul(amplitude, sin2pi(RDiv(RAdd(RInt(t), phase), wavelength))), mean)

\* SinusoidalFactor.generate
SinusoidalFactor_generate(o, start_date, end_date, r) ==
    LET days == get_datetime_index(start_date, end_date)
        dr == to_frame(days, o.date_col_name)
        N == Len(days)
        pcols == <<"wavelength", "amplitude", "phase", "mean">>
    IN  IF N = 0 THEN Raise("IndexError") @@ [rng |-> r]
        ELSE IF TruthyDict(o.feature_values) /\ AnyLacks(The(o.feature_values), VARIABLES_)
        THEN \* feat[1][var] of a record without the key
             Raise("KeyError") @@ [rng |-> r]
        ELSE IF ~IsNone(o.feature_values) /\ The(o.feature_values) # <<>>
        THEN
            LET fv == The(o.feature_values)
                start_date_ts == dr.rows[1][o.date_col_name]
                dcols == <<ColumnName(o.feature)>> \o pcols
                df == DataFrame(dcols,
                        [i \in 1..Len(fv) |->
                            Row(dcols, <<fv[i][1]>> \o
                                       [j \in 1..4 |-> Get(fv[i][2], pcols[j])])])
                cp == get_cartesian_product(dr, df)
                get_factor_col(row) ==
                    Sinusoid(row["amplitude"], row["phase"], row["wavelength"], row["mean"],
                             row[o.date_col_name] - start_date_ts)
                factor_df == Assign(cp, o.col_name,
                                    [i \in 1..Len(cp.rows) |-> get_factor_col(cp.rows[i])])
            IN  Ok(Drop(factor_df, VARIABLES_)) @@ [rng |-> r]
        ELSE IF IsNone(o.wavelength) THEN Raise("TypeError") @@ [rng |-> r]
        ELSE
            Ok(Assign(dr, o.col_name,
                      [i \in 1..N |->
                          Sinusoid(o.amplitude, o.phase, The(o.wavelength), o.mean, i - 1)]))
                @@ [rng |-> r]

-----------------------------------------------------------------------------
(* white_noise.py *)

\* WhiteNoise.__init__.  feature_values is {feature: {value: stdev}}; the
\* factor's features is that same dict, and iterating features[feature]
\* gives the values: features is kept as {feature: [values]}.
WhiteNoise(stdev_factor, feature_values, col_name) ==
    IF \/ (TruthyNum(stdev_factor) /\ TruthyDict(feature_values))
       \/ ~(TruthyNum(stdev_factor) \/ TruthyDict(feature_values))
    THEN Raise("AttributeError")
    ELSE IF TruthyDict(feature_values) /\ Len(The(feature_values)) > 1
    THEN Raise("AttributeError")
    ELSE
    LET per_feature == TruthyDict(feature_values)
        fv == The(feature_values)
        fs == IF per_feature
              THEN Some([i \in 1..Len(fv) |-> <<fv[i][1], Keys(fv[i][2])>>])
              ELSE None
        base == BaseFactor(col_name, fs, "date", ~per_feature)
    IN  Ok(base.val @@ [kind |-> "WhiteNoise", stdev_factor |-> stdev_factor,
                        feature_values |-> feature_values])

\* WhiteNoise.feature_values (setter): len(None) raises TypeError
WhiteNoise_set_feature_values(o, feature_values) ==
    IF IsNone(feature_values) THEN [err |-> "TypeError", obj |-> o]
    ELSE IF Len(The(feature_values)) > 1 THEN [err |-> "AttributeError", obj |-> o]
    ELSE [err |-> "", obj |-> [o EXCEPT !.feature_values = feature_values]]

\* WhiteNoise.generate
WhiteNoise_generate(o, start_date, end_date, r) ==
    LET days == get_datetime_index(start_date, end_date)
        dr == to_frame(days, o.date_col_name)
    IN  IF o.features # <<>>
        THEN
            LET names == Keys(o.features)
                combos == product(Values(o.features))
                df == DataFrame(names, [i \in 1..Len(combos) |-> Row(names, combos[i])])
                factor_df == get_cartesian_product(dr, df)
                n == Len(factor_df.rows)
            IN  IF TruthyDict(o.feature_values)
                THEN \* the draws go to column "noise_1", get_factor_col reads row["noise1"]
                     Raise("KeyError") @@ [rng |-> advance(r, n)]
                ELSE IF IsNone(o.stdev_factor)
                THEN Raise("TypeError") @@ [rng |-> advance(r, n)]
                ELSE Ok(Assign(factor_df, o.col_name,
                               [i \in 1..n |->
                                   RAdd(RMul(The(o.stdev_factor), randn(r, i - 1)), ROne)]))
                        @@ [rng |-> advance(r, n)]
        ELSE IF IsNone(o.stdev_factor)
        THEN Raise("TypeError") @@ [rng |-> advance(r, Len(days))]
        ELSE Ok(Assign(dr, o.col_name,
                       [i \in 1..Len(days) |->
                           RAdd(RMul(The(o.stdev_factor), randn(r, i - 1)), ROne)]))
                @@ [rng |-> advance(r, Len(days))]

-----------------------------------------------------------------------------
(* external_factors: the reference data the factors read.  The two CSV      *)
(* files are data outside the program; the model reads these tables.        *)

\* GDP_per_capita_countries.csv: one row per country, one value per year,
\* the years 0, 1, 2, ... each starting on its 1 January
GdpCsv == << <<"Netherlands", <<40, 50, 60>> >>,
             <<"Italy",       <<30, 35, 35>> >>,
             <<"Belgium",     <<45, 45, 50>> >> >>
\* the column of the year whose Dutch value is the base amount ("2015")
GdpBaseYear == 1

\* eu_prod_index.csv: one value per month, the months 0, 1, 2, ...
EuCsv == <<105, 110, 95, 100, 120>>

\* df.resample("D").ffill() of a table with one entry per period of len days:
\* the days from the first entry to the last entry, each with its period
Resampled(periods, len) == [i \in 1..((periods - 1) * len + 1) |-> (i - 1) \div len]

-----------------------------------------------------------------------------
(* external_factor.py, country_gdp_factor.py, eu_industry_product_factor.py *)

\* ExternalFactor.__init__ adds min_date and max_date to the BaseFactor
\* CountryGdpFactor.__init__
CountryGdpFactor(col_name, country_feature_name, country_list) ==
    LET name == IF IsNone(country_feature_name) THEN "country" ELSE The(country_feature_name)
        list == IF IsNone(country_list) THEN <<"Netherlands", "Italy", "Romania">>
                ELSE The(country_list)
        base == BaseFactor(col_name, Some(<< <<name, list>> >>), "date", FALSE)
    IN  Ok(base.val @@ [kind |-> "CountryGdpFactor"])

\* CountryGdpFactor.load_data
CountryGdpFactor_load_data(o) ==
    LET base_gdppc_amount == Get(GdpCsv, "Netherlands")[GdpBaseYear + 1]
        wanted == Range(o.features[1][2])
        picked == SelectIdx([i \in 1..Len(GdpCsv) |-> GdpCsv[i][1] \in wanted], 1, Len(GdpCsv))
        yearOf == Resampled(Len(GdpCsv[1][2]), YearLen)
        cols == <<o.date_col_name, "country", o.col_name>>
        \* stack(): by date, and within a date the countries in file order
        rows == Flatten([d \in 1..Len(yearOf) |->
                    [c \in 1..Len(picked) |->
                        Row(cols, <<d - 1, GdpCsv[picked[c]][1],
                                    Rat(GdpCsv[picked[c]][2][yearOf[d] + 1],
                                        base_gdppc_amount)>>)]])
    IN  DataFrame(cols, rows)

\* EUIndustryProductFactor.__init__
EUIndustryProductFactor(col_name, intensive_scale) ==
    LET base == BaseFactor(col_name, None, "date", FALSE)
    IN  Ok(base.val @@ [kind |-> "EUIndustryProductFactor", intensive_sale |-> intensive_scale])

\* EUIndustryProductFactor.load_data
EUIndustryProductFactor_load_data(o) ==
    LET monthOf == Resampled(Len(EuCsv), MonthLen)
        cols == <<o.date_col_name, o.col_name>>
    IN  DataFrame(cols,
            [d \in 1..Len(monthOf) |->
                Row(cols, <<d - 1,
                            RMul(Rat(EuCsv[monthOf[d] + 1], 100), o.intensive_sale)>>)])

load_data(o) ==
    IF o.kind = "CountryGdpFactor" THEN CountryGdpFactor_load_data(o)
    ELSE EUIndustryProductFactor_load_data(o)

\* ExternalFactor.generate: the selection reads data["date"]
ExternalFactor_generate(o, start_date, end_date, r) ==
    LET data == load_data(o)
    IN  IF "date" \notin Range(data.cols) THEN Raise("KeyError") @@ [rng |-> r]
        ELSE Ok(DateSel(data, "date", start_date, end_date)) @@ [rng |-> r]

-----------------------------------------------------------------------------
(* The holiday calendars (the workalendar package): the country modules,    *)
(* the calendar class each defines, and the holidays of a year as           *)
(* <<day of the year, name>> in calendar order (a day may come twice).      *)

Workalendar ==
    << [modname |-> "workalendar.europe.netherlands", class |-> "Netherlands",
        holidays |-> << <<0, "New year">>, <<2, "Ascension Thursday">>,
                        <<2, "Liberation Day">> >>],
       [modname |-> "workalendar.europe.italy", class |-> "Italy",
        holidays |-> << <<0, "New year">>, <<1, "Epiphany">> >>],
       [modname |-> "workalendar.europe.finland", class |-> "Finland",
        holidays |-> << <<0, "New year">> >>] >>

\* str.lower() on the names the model uses
lower(name) ==
    CASE name = "Netherlands" -> "netherlands"
      [] name = "Italy" -> "italy"
      [] name = "Finland" -> "finland"
      [] name = "Romania" -> "romania"
      [] name = "Land" -> "land"
      [] OTHER -> name

\* "part in modname" for lower-case part
Contains(modname, part) ==
    \/ part = "land" /\ modname \in {"workalendar.europe.netherlands",
                                     "workalendar.europe.finland"}
    \/ part = "netherlands" /\ modname = "workalendar.europe.netherlands"
    \/ part = "italy" /\ modname = "workalendar.europe.italy"
    \/ part = "finland" /\ modname = "workalendar.europe.finland"

\* scipy's gaussian window of 10 points with std 2, in hundredths:
\* exp(-((k - 4.5) / 2) ^ 2 / 2) for k = 0 .. 9
GaussianWindow == <<8, 22, 46, 75, 97, 97, 75, 46, 22, 8>>

\* the mean over a window with the row in its middle (center=True)
rolling_mean_centered(xs) ==
    LET W == Len(GaussianWindow)
        First(p) == IF p - (W \div 2) < 1 THEN 1 ELSE p - (W \div 2)
        Last(p) == IF p + (W \div 2) - 1 > Len(xs) THEN Len(xs) ELSE p + (W \div 2) - 1
        Weight(p, i) == GaussianWindow[i - p + (W \div 2) + 1]
        RECURSIVE WSum(_, _)
        WSum(p, i) == IF i > Last(p) THEN RZero
                      ELSE RAdd(RMul(RInt(Weight(p, i)), xs[i]), WSum(p, i + 1))
        RECURSIVE Tot(_, _)
        Tot(p, i) == IF i > Last(p) THEN 0 ELSE Weight(p, i) + Tot(p, i + 1)
    IN  [p \in 1..Len(xs) |-> RDiv(WSum(p, First(p)), RInt(Tot(p, First(p))))]

\* Series.rolling(10, win_type="gaussian", min_periods=1).mean(std=2): the
\* window ends at the row itself (the last weight is the row's own) and the
\* mean is over the rows that exist
rolling_mean(xs) ==
    LET W == Len(GaussianWindow)
        First(p) == IF p - W + 1 < 1 THEN 1 ELSE p - W + 1
        Weight(p, i) == GaussianWindow[i - p + W]
        RECURSIVE WSum(_, _)
        WSum(p, i) == IF i > p THEN RZero
                      ELSE RAdd(RMul(RInt(Weight(p, i)), xs[i]), WSum(p, i + 1))
        RECURSIVE Tot(_, _)
        Tot(p, i) == IF i > p THEN 0 ELSE Weight(p, i) + Tot(p, i + 1)
    IN  [p \in 1..Len(xs) |-> RDiv(WSum(p, First(p)), RInt(Tot(p, First(p))))]

-----------------------------------------------------------------------------
(* holiday_factor.py *)

NaN == "NaN"

\* HolidayFactor.__init__
HolidayFactor(col_name, holiday_factor, special_holiday_factors, country_feature_name, country_list) ==
    LET special == IF IsNone(special_holiday_factors) THEN <<>>
                   ELSE The(special_holiday_factors)
        name == IF IsNone(country_feature_name) THEN "country" ELSE The(country_feature_name)
        list == IF IsNone(country_list) THEN <<"Netherlands", "Italy", "Romania">>
                ELSE The(country_list)
        base == BaseFactor(col_name, Some(<< <<name, list>> >>), "date", FALSE)
    IN  Ok(base.val @@ [kind |-> "HolidayFactor", holiday_factor |-> holiday_factor,
                        special_holiday_factors |-> special])

\* clean_holiday_tuples: of the holidays on one day only the first is kept
clean_holiday_tuples(input_tuples) ==
    LET keep == SelectIdx([i \in 1..Len(input_tuples) |->
                             \A j \in 1..(i - 1) : input_tuples[j][1] # input_tuples[i][1]],
                          1, Len(input_tuples))
    IN  [i \in 1..Len(keep) |-> input_tuples[keep[i]]]

get_holiday_factor(o, holiday) ==
    IF holiday = NaN THEN ROne
    ELSE IF HasKey(o.special_holiday_factors, holiday)
    THEN Get(o.special_holiday_factors, holiday)
    ELSE o.holiday_factor

\* get_country_holiday_df, without the smoothing: one year of one calendar
country_year_df(o, cal, country_name, y) ==
    LET holidays_tuples == clean_holiday_tuples(cal.holidays)
        cols == <<o.date_col_name, "holiday", "country">>
        \* holiday_series.reindex(ix): every day of the year, NaN where no holiday
        holiday(d) == IF HasKey(holidays_tuples, d) THEN Get(holidays_tuples, d) ELSE NaN
        country_holiday_df ==
            DataFrame(cols, [d \in 1..YearLen |->
                Row(cols, <<y * YearLen + d - 1, holiday(d - 1), country_name>>)])
    IN  Assign(country_holiday_df, o.col_name,
               [d \in 1..YearLen |-> get_holiday_factor(o, holiday(d - 1))])

get_country_holiday_df(o, country_name, start_date, end_date) ==
    LET workalendar_country_module ==
            SelectIdx([i \in 1..Len(Workalendar) |->
                          Contains(Workalendar[i].modname, lower(country_name))],
                      1, Len(Workalendar))
    IN  IF Len(workalendar_country_module) # 1 THEN Raise("ValueError")
        ELSE
        LET cal == Workalendar[workalendar_country_module[1]]
        IN  IF cal.class # country_name THEN Raise("AttributeError")
            ELSE IF IsNone(end_date) THEN Raise("AttributeError")  \* end_date.year
            ELSE
            LET y0 == year(start_date)
                y1 == year(The(end_date))
                df == Concat([i \in 1..(y1 - y0 + 1) |->
                                 country_year_df(o, cal, country_name, y0 + i - 1)])
                smooth == rolling_mean([i \in 1..Len(df.rows) |-> df.rows[i][o.col_name]])
            IN  IF y1 < y0 THEN Raise("KeyError")  \* no year: a frame without columns
                ELSE Ok(DataFrame(df.cols,
                        [i \in 1..Len(df.rows) |->
                            [df.rows[i] EXCEPT ![o.col_name] = smooth[i]]]))

\* the first country whose table cannot be made decides the outcome
RECURSIVE FirstError(_)
FirstError(results) ==
    IF results = <<>> THEN ""
    ELSE IF Head(results).err # "" THEN Head(results).err
    ELSE FirstError(Tail(results))

\* HolidayFactor.generate
HolidayFactor_generate(o, start_date, end_date, r) ==
    LET countries == o.features[1][2]
        dfs == [i \in 1..Len(countries) |->
                   get_country_holiday_df(o, countries[i], start_date, end_date)]
    IN  IF FirstError(dfs) # "" THEN Raise(FirstError(dfs)) @@ [rng |-> r]
        ELSE IF dfs = <<>> THEN Raise("ValueError") @@ [rng |-> r]  \* nothing to concat
        ELSE
        LET holiday_df == Drop(Concat([i \in 1..Len(dfs) |-> dfs[i].val]), {"holiday"})
        IN  Ok(DateSel(holiday_df, o.date_col_name, start_date, end_date)) @@ [rng |-> r]

-----------------------------------------------------------------------------
(* factor.generate(start_date, end_date), by the class of the object *)

generate(o, start_date, end_date, r) ==
    CASE o.kind = "LinearTrend" -> LinearTrend_generate(o, start_date, end_date, r)
      [] o.kind = "SinusoidalFactor" -> SinusoidalFactor_generate(o, start_date, end_date, r)
      [] o.kind = "WeekdayFactor" -> WeekdayFactor_generate(o, start_date, end_date, r)
      [] o.kind = "RandomFeatureFactor" ->
            RandomFeatureFactor_generate(o, start_date, end_date, r)
      [] o.kind = "WhiteNoise" -> WhiteNoise_generate(o, start_date, end_date, r)
      [] o.kind = "HolidayFactor" -> HolidayFactor_generate(o, start_date, end_date, r)
      [] OTHER -> ExternalFactor_generate(o, start_date, end_date, r)

-----------------------------------------------------------------------------
(* generator.py *)

NoTable == [none |-> TRUE, cols |-> <<>>, rows |-> <<>>]
Table(df) == [none |-> FALSE, cols |-> df.cols, rows |-> df.rows]

\* the skeleton: product(list(date_range), *features.values()) with the
\* columns ["date"] + features.keys(), and the base_amount column
Skeleton(feats, dr, base) ==
    LET cols == <<"date">> \o Keys(feats)
        combos == product(<<dr>> \o Values(feats))
        frame == DataFrame(cols, [i \in 1..Len(combos) |-> Row(cols, combos[i])])
    IN  Assign(frame, "base_amount", [i \in 1..Len(combos) |-> base])

\* ts.merge(df, how="left", on=keys).fillna(0): a wrong fill value
merge_fillna_zero(table, df, keys) == merge(table, df, "left", keys, RZero)

\* ts.merge(df, how="inner", on=keys): the rows without a match are lost
merge_inner(table, df, keys) == merge(table, df, "inner", keys, ROne)

\* ts.merge(df, how="left", on=keys).fillna(1)
merge_fillna(table, df, keys) == merge(table, df, "left", keys, ROne)

\* the columns a factor's table is merged on
MergeKeys(o) == Range(Keys(o.features)) \cup {"date"}

\* the binding without the test of apply_to_all: every factor gets the
\* features of the Generator
rebind_all(o, f, feats) == [o EXCEPT ![f].features = feats]

\* "if f.apply_to_all: f.features = self._features", with a guard that binds
\* the features only while the factor has none
rebind_once(o, f, feats) ==
    IF o[f].apply_to_all /\ o[f].features = <<>> THEN [o EXCEPT ![f].features = feats] ELSE o

\* "if f.apply_to_all: f.features = self._features": the objects afterwards
rebind(o, f, feats) ==
    IF o[f].apply_to_all THEN [o EXCEPT ![f].features = feats] ELSE o

\* the loop "for f in self._factors" over the factors in iteration order,
\* from the table, objects and random source the earlier factors left
RECURSIVE MergeFactors(_, _, _, _, _, _)

\* the end of one pass of the loop: the merged table goes on to the next factor
MergeNext(order, merged, o1, feats, dr, r) ==
    IF merged.err # ""
    THEN [err |-> merged.err, val |-> EmptyFrame, obj |-> o1, rng |-> r]
    ELSE MergeFactors(Tail(order), merged.val, o1, feats, dr, r)

\* one pass of the loop once f.generate has returned g.  The statement
\* df.rename(columns={date_col_name: "date"}) returns a new frame that is
\* not kept: the frame that is merged is the one generate returned
MergeOne(order, table, o1, g, feats, dr) ==
    IF g.err # "" THEN [err |-> g.err, val |-> EmptyFrame, obj |-> o1, rng |-> g.rng]
    ELSE MergeNext(order, merge_fillna(table, g.val, MergeKeys(o1[Head(order)])),
                   o1, feats, dr, g.rng)

MergeFactors(order, table, o, feats, dr, r) ==
    IF order = <<>> THEN [err |-> "", val |-> table, obj |-> o, rng |-> r]
    ELSE
    LET f == Head(order)
        o1 == rebind(o, f, feats)
    IN  MergeOne(order, table, o1, generate(o1[f], dr[1], Some(dr[Len(dr)]), r), feats, dr)

\* value = total_factor, the base amount forgotten
Totals_without_base(table, factor_names) ==
    LET total == [i \in 1..Len(table.rows) |->
                     RProd([k \in 1..Len(factor_names) |-> table.rows[i][factor_names[k]]])]
    IN  Assign(Assign(table, "total_factor", total), "value", total)

\* ts[factor_names].prod(axis=1) and ts["total_factor"] * ts["base_amount"]
Totals(table, factor_names) ==
    LET total == [i \in 1..Len(table.rows) |->
                     RProd([k \in 1..Len(factor_names) |-> table.rows[i][factor_names[k]]])]
        t1 == Assign(table, "total_factor", total)
    IN  Assign(t1, "value",
               [i \in 1..Len(table.rows) |-> RMul(total[i], table.rows[i]["base_amount"])])

\* the names of the factors in iteration order
factor_names(order, o) == [i \in 1..Len(order) |-> o[order[i]].col_name]

\* the end of generate, from the result m of the loop, without the check of
\* the factor names
Finish_unchecked(m, order) ==
    IF m.err # "" THEN m
    ELSE IF \E k \in 1..Len(order) : factor_names(order, m.obj)[k] \notin Range(m.val.cols)
    THEN [m EXCEPT !.err = "KeyError", !.val = EmptyFrame]
    ELSE [m EXCEPT !.val = Totals(m.val, factor_names(order, m.obj))]

\* the end of generate, from the result m of the loop: the check of the
\* factor names, then the total_factor and value columns
Finish(m, order) ==
    IF m.err # "" THEN m
    ELSE IF Len(order) # Cardinality(Range(factor_names(order, m.obj)))
    THEN [m EXCEPT !.err = "DuplicateNameError", !.val = EmptyFrame]
    ELSE IF \E k \in 1..Len(order) : factor_names(order, m.obj)[k] \notin Range(m.val.cols)
    THEN [m EXCEPT !.err = "KeyError", !.val = EmptyFrame]
    ELSE [m EXCEPT !.val = Totals(m.val, factor_names(order, m.obj))]

\* Generator.generate, the factors iterated in the given order
Generator_generate(order, o, feats, dr, base, r) ==
    Finish(MergeFactors(order, Skeleton(feats, dr, base), o, feats, dr, r), order)

\* Generator.__init__: features None becomes {}; for date_range None the
\* default range is computed and dropped, and the argument is stored as it is
Generator_init(fs, feats, dr, base) ==
    [factors |-> fs, features |-> IF IsNone(feats) THEN <<>> ELSE The(feats),
     date_range |-> dr, base_value |-> base, ts |-> NoTable]

\* Generator.generate on the stored date range: list(None) raises TypeError
Generator_generate_stored(order, o, feats, dr, base, r) ==
    IF IsNone(dr) THEN [err |-> "TypeError", val |-> EmptyFrame, obj |-> o, rng |-> r]
    ELSE Generator_generate(order, o, feats, The(dr), base, r)

\* add_factor that looks for the object instead of its col_name
add_factor_by_identity(fs, o, f) ==
    IF f \in fs THEN [err |-> "FactorAlreadyExistsError", set |-> fs]
    ELSE [err |-> "", set |-> fs \cup {f}]

\* Generator.add_factor on the factor set fs
add_factor(fs, o, f) ==
    IF o[f].col_name \in {o[g].col_name : g \in fs}
    THEN [err |-> "FactorAlreadyExistsError", set |-> fs]
    ELSE [err |-> "", set |-> fs \cup {f}]

\* update_factor that does not drop the factor of the same name
update_factor_keeping(fs, o, f) == [err |-> "", set |-> fs \cup {f}]

\* Generator.update_factor
update_factor(fs, o, f) ==
    LET kept == IF o[f].col_name \in {o[g].col_name : g \in fs}
                THEN {g \in fs : o[g].col_name # o[f].col_name}
                ELSE fs
    IN  [err |-> "", set |-> kept \cup {f}]

\* remove_factor that removes by col_name
remove_factor_by_name(fs, o, f) ==
    IF o[f].col_name \in {o[g].col_name : g \in fs}
    THEN [err |-> "", set |-> {g \in fs : o[g].col_name # o[f].col_name}]
    ELSE [err |-> "KeyError", set |-> fs]

\* Generator.remove_factor: set.remove
remove_factor(fs, o, f) ==
    IF f \in fs THEN [err |-> "", set |-> fs \ {f}]
    ELSE [err |-> "KeyError", set |-> fs]

-----------------------------------------------------------------------------
(* The objects of the model: one factor object per way of constructing a    *)
(* factor that the properties distinguish.                                  *)

Half == Rat(1, 2)

SinRecord(phase) ==
    << <<"wavelength", RInt(4)>>, <<"amplitude", ROne>>, <<"phase", phase>>, <<"mean", ROne>> >>

Pool ==
    [lin      |-> LinearTrend(Some(ROne), Some(Half), None, None, "lin_trend").val,
     lin_f    |-> LinearTrend(None, None, Some("country"),
                    Some(<< <<"Netherlands", << <<"coef", RInt(2)>>, <<"offset", RZero>> >> >> >>),
                    "lin_trend").val,
     sin      |-> SinusoidalFactor(Some(RInt(4)), ROne, RZero, ROne, "sinusoidal_factor",
                    "date", None, None).val,
     sin_d    |-> SinusoidalFactor(Some(RInt(4)), ROne, RZero, ROne, "sinusoidal_factor",
                    "day", None, None).val,
     sin_f    |-> SinusoidalFactor(None, ROne, RZero, ROne, "product_seasonal_trend_factor",
                    "date", Some("store"),
                    Some(<< <<"s1", SinRecord(RZero)>>, <<"s3", SinRecord(ROne)>> >>)).val,
     wk       |-> WeekdayFactor(None, "weekend_trend_factor", ROne).val,
     wk_s     |-> WeekdayFactor(None, "weekend_trend_factor", RInt(2)).val,
     wk_c     |-> WeekdayFactor(Some(<< <<1, Rat(3, 2)>>, <<2, Rat(3, 2)>> >>),
                    "early_week_boost_factor", ROne).val,
     rnd      |-> RandomFeatureFactor("store", <<"s1", "s2">>, ROne, RInt(10),
                    "random_feature_factor").val,
     rnd_dup  |-> RandomFeatureFactor("store", <<"s1", "s1">>, RInt(2), RInt(2),
                    "random_feature_factor").val,
     noise    |-> WhiteNoise(Some(Rat(1, 20)), None, "white_noise").val,
     noise_f  |-> WhiteNoise(None,
                    Some(<< <<"country", << <<"Netherlands", Rat(1, 20)>>, <<"Italy", RZero>> >> >> >>),
                    "white_noise").val,
     gdp      |-> CountryGdpFactor("country_gdp_factor", None,
                    Some(<<"Netherlands", "Belgium">>)).val,
     gdp_n    |-> CountryGdpFactor("country_gdp_factor", Some("nation"),
                    Some(<<"Netherlands", "Italy">>)).val,
     eu       |-> EUIndustryProductFactor("eu_industry_product_factor", ROne).val,
     hol      |-> HolidayFactor("holiday_trend_factor", RInt(2), None, None,
                    Some(<<"Netherlands", "Italy">>)).val,
     hol_n    |-> HolidayFactor("holiday_trend_factor", RInt(2), None, Some("nation"),
                    Some(<<"Netherlands">>)).val,
     hol_lc   |-> HolidayFactor("holiday_trend_factor", RInt(2), None, None,
                    Some(<<"netherlands">>)).val,
     hol_amb  |-> HolidayFactor("holiday_trend_factor", RInt(2), None, None,
                    Some(<<"Netherlands", "Land">>)).val]

FactorIds == DOMAIN Pool

\* the order in which the ids are listed; a set of factors is iterated in
\* this order or in the reverse one (the iteration order of a Python set of
\* objects is not fixed by the program)
IdOrder == <<"lin", "lin_f", "sin", "sin_d", "sin_f", "wk", "wk_s", "wk_c", "rnd", "rnd_dup", "noise", "noise_f",
             "gdp", "gdp_n", "eu", "hol", "hol_n", "hol_lc", "hol_amb">>

Ascending(S) ==
    LET ix == SelectIdx([i \in 1..Len(IdOrder) |-> IdOrder[i] \in S], 1, Len(IdOrder))
    IN  [i \in 1..Len(ix) |-> IdOrder[ix[i]]]
Reverse(s) == [i \in 1..Len(s) |-> s[Len(s) + 1 - i]]
IterationOrders(S) == {Ascending(S), Reverse(Ascending(S))}

\* the feature sets a Generator is constructed with
FeatureSets ==
    { <<>>,
      << <<"country", <<"Netherlands", "Italy">> >>, <<"store", <<"s1", "s2">> >> >>,
      << <<"store", <<"s1", "s1">> >> >> }

-----------------------------------------------------------------------------
(* The Generator as a state machine: constructed with any set of factors,   *)
(* then add_factor, update_factor, remove_factor and generate in any order. *)

\* before is the factor set the call found, found the factor objects as the
\* call found them, order the order in which generate iterated the set, prev
\* the call made before this one
NoCall == [op |-> "", arg |-> "", start |-> 0, end |-> None,
           err |-> "", val |-> EmptyFrame, set |-> {}, before |-> {},
           found |-> <<>>, order |-> <<>>, prev |-> ""]

\* the objects a Generator is constructed with, and the ones that are passed
\* to add_factor, update_factor and remove_factor afterwards
EngineIds == {"lin", "lin_f", "sin_d", "sin_f", "wk", "rnd_dup", "noise", "noise_f", "gdp", "hol_n"}
OpArgs == {"lin", "lin_f", "wk"}

Init ==
    /\ obj = Pool
    /\ factors \in {S \in SUBSET EngineIds : Cardinality(S) <= MaxFactors}
    /\ features \in FeatureSets
    /\ date_range = pd_date_range(1, MaxDay)
    /\ base_value = RInt(5)
    /\ ts = NoTable
    /\ rng = 0
    /\ ret = NoCall
    /\ calls = 0
    /\ threads = <<>>

AddFactor(f) ==
    /\ calls < MaxOps
    /\ LET a == add_factor(factors, obj, f)
       IN  /\ factors' = a.set
           /\ ret' = [NoCall EXCEPT !.op = "add_factor", !.arg = f, !.err = a.err,
                                    !.before = factors]
    /\ calls' = calls + 1
    /\ UNCHANGED <<obj, features, date_range, base_value, ts, rng, threads>>

UpdateFactor(f) ==
    /\ calls < MaxOps
    /\ LET u == update_factor(factors, obj, f)
       IN  /\ factors' = u.set
           /\ ret' = [NoCall EXCEPT !.op = "update_factor", !.arg = f, !.err = u.err,
                                    !.set = u.set, !.before = factors]
    /\ calls' = calls + 1
    /\ UNCHANGED <<obj, features, date_range, base_value, ts, rng, threads>>

RemoveFactor(f) ==
    /\ calls < MaxOps
    /\ LET d == remove_factor(factors, obj, f)
       IN  /\ factors' = d.set
           /\ ret' = [NoCall EXCEPT !.op = "remove_factor", !.arg = f, !.err = d.err,
                                    !.before = factors]
    /\ calls' = calls + 1
    /\ UNCHANGED <<obj, features, date_range, base_value, ts, rng, threads>>

\* generator.factors.add(f): the property hands out the set itself, and
\* set.add does not look at names
DirectAdd(f) ==
    /\ calls < MaxOps
    /\ factors' = factors \cup {f}
    /\ ret' = [NoCall EXCEPT !.op = "factors.add", !.arg = f, !.before = factors]
    /\ calls' = calls + 1
    /\ UNCHANGED <<obj, features, date_range, base_value, ts, rng, threads>>

\* the orders in which a call of generate may iterate the factor set: a set
\* that was not touched since the last generate iterates as it did then
Orders ==
    IF ret.op = "generate" THEN {ret.order} ELSE IterationOrders(factors)

\* generate that merges the factors into the table the last call stored
\* instead of a new skeleton
Generate_from_ts ==
    /\ calls < MaxOps
    /\ \E order \in Orders :
          \E g \in {Finish(MergeFactors(order,
                                       IF ts.none
                                       THEN Skeleton(features, date_range, base_value)
                                       ELSE DataFrame(ts.cols, ts.rows),
                                       obj, features, date_range, rng), order)} :
              /\ obj' = g.obj
              /\ rng' = g.rng
              /\ ts' = IF g.err = "" THEN Table(g.val) ELSE ts
              /\ ret' = [NoCall EXCEPT !.op = "generate", !.err = g.err, !.val = g.val,
                                       !.before = factors, !.found = obj, !.order = order,
                                       !.prev = ret.op]
    /\ calls' = calls + 1
    /\ UNCHANGED <<factors, features, date_range, base_value, threads>>

Generate ==
    /\ calls < MaxOps
    /\ \E order \in Orders :
          \E g \in {Generator_generate(order, obj, features, date_range, base_value, rng)} :
              /\ obj' = g.obj
              /\ rng' = g.rng
              /\ ts' = IF g.err = "" THEN Table(g.val) ELSE ts
              /\ ret' = [NoCall EXCEPT !.op = "generate", !.err = g.err, !.val = g.val,
                                       !.before = factors, !.found = obj, !.order = order,
                                       !.prev = ret.op]
    /\ calls' = calls + 1
    /\ UNCHANGED <<factors, features, date_range, base_value, threads>>

\* generate() of another Generator that was constructed with the same factor
\* objects and a different features dictionary
OtherGenerate(feats) ==
    /\ calls < MaxOps
    /\ feats # features
    /\ \E order \in IterationOrders(factors) :
          \E g \in {Generator_generate(order, obj, feats, date_range, base_value, rng)} :
              /\ obj' = g.obj
              /\ rng' = g.rng
              /\ ret' = [NoCall EXCEPT !.op = "other.generate", !.err = g.err,
                                       !.val = g.val, !.before = factors, !.found = obj]
    /\ calls' = calls + 1
    /\ UNCHANGED <<factors, features, date_range, base_value, ts, threads>>

Next ==
    \/ \E f \in OpArgs : AddFactor(f)
    \/ \E f \in OpArgs : UpdateFactor(f)
    \/ \E f \in OpArgs : RemoveFactor(f)
    \/ \E f \in OpArgs : DirectAdd(f)
    \/ Generate
    \/ \E feats \in FeatureSets : OtherGenerate(feats)

Spec == Init /\ [][Next]_vars

-----------------------------------------------------------------------------
(* A factor used on its own: generate(start_date, end_date) on any of the   *)
(* objects, for any dates and any state of the random source.               *)

Days == 0..MaxDay

InitFactor ==
    /\ obj = Pool
    /\ factors = {}
    /\ features = <<>>
    /\ date_range = pd_date_range(1, MaxDay)
    /\ base_value = ROne
    /\ ts = NoTable
    /\ rng \in 0..(Len(RandomSource) - 1)
    /\ ret = NoCall
    /\ calls = 0
    /\ threads = <<>>

FactorGenerate(f, start_date, end_date) ==
    /\ calls = 0
    /\ calls' = 1
    /\ LET g == generate(obj[f], start_date, end_date, rng)
       IN  /\ ret' = [NoCall EXCEPT !.op = "factor.generate", !.arg = f,
                                    !.start = start_date, !.end = end_date,
                                    !.err = g.err, !.val = g.val]
           /\ rng' = g.rng
    /\ UNCHANGED <<obj, factors, features, date_range, base_value, ts, threads>>

NextFactor ==
    \E f \in FactorIds, start_date \in Days :
        \E end_date \in {None} \cup {Some(e) : e \in {d \in Days : d >= start_date}} :
            FactorGenerate(f, start_date, end_date)

SpecFactor == InitFactor /\ [][NextFactor]_vars

-----------------------------------------------------------------------------
(* Properties of Generator.generate *)

\* the last call was Generator.generate and it returned a table
Returned == ret.op = "generate" /\ ret.err = ""

Name(f) == obj[f].col_name
HasDuplicateNames(S) == \E f, g \in S : f # g /\ Name(f) = Name(g)

\* the skeleton of the Generator and the projection of a row on its columns
SkeletonCols == {"date"} \cup Range(Keys(features))
OnSkeleton(row) == [c \in SkeletonCols |-> row[c]]
SkeletonRows ==
    LET sk == Skeleton(features, date_range, base_value)
    IN  [i \in 1..Len(sk.rows) |-> OnSkeleton(sk.rows[i])]

\* the table the factor itself generates for the Generator's dates (the keys
\* of its rows do not depend on the random source)
OwnTable(f) ==
    generate(obj[f], date_range[1], Some(date_range[Len(date_range)]), 0).val

\* the skeleton row has no row of the factor's own table under the merge key
Uncovered(f, s) ==
    LET own == OwnTable(f)
    IN  ~\E j \in 1..Len(own.rows) : \A k \in MergeKeys(obj[f]) : own.rows[j][k] = s[k]

\* the rows of the returned table that lie on a skeleton row
RowsOn(s) == {t \in 1..Len(ret.val.rows) : OnSkeleton(ret.val.rows[t]) = s}

\* C1: in the returned table every skeleton row that the factor's own table
\* does not cover is present and holds exactly 1 in the factor's column.
C1_NeutralFill ==
    Returned =>
        \A f \in factors : \A i \in 1..Len(SkeletonRows) :
            LET s == SkeletonRows[i]
            IN  Uncovered(f, s) =>
                    /\ RowsOn(s) # {}
                    /\ \A t \in RowsOn(s) : ret.val.rows[t][Name(f)] = ROne

\* a returned table in which a factor leaves a skeleton row uncovered while
\* it gives another row a value other than 1
C1_Witness ==
    /\ Returned
    /\ \E f \in factors :
          /\ \E i \in 1..Len(SkeletonRows) : Uncovered(f, SkeletonRows[i])
          /\ \E t \in 1..Len(ret.val.rows) : ret.val.rows[t][Name(f)] # ROne

\* C2: in every row of the returned table total_factor is the product of the
\* factor columns, one per factor of the set, and value is total_factor times
\* base_amount, which is base_value; without factors total_factor is 1 and
\* value is base_value.
C2_Product ==
    Returned =>
        /\ \A f \in factors : Name(f) \in Range(ret.val.cols)
        /\ \A t \in 1..Len(ret.val.rows) :
              LET row == ret.val.rows[t]
                  names == Ascending(factors)
              IN  /\ row["total_factor"] = RProd([k \in 1..Len(names) |-> row[Name(names[k])]])
                  /\ row["base_amount"] = base_value
                  /\ row["value"] = RMul(row["total_factor"], base_value)
                  /\ factors = {} => row["total_factor"] = ROne /\ row["value"] = base_value

\* a returned table with two factors that both act on one row
C2_Witness ==
    /\ Returned
    /\ Cardinality(factors) >= 2
    /\ \E t \in 1..Len(ret.val.rows) :
          /\ \A f \in factors : ret.val.rows[t][Name(f)] # ROne
          /\ ret.val.rows[t]["value"] # ret.val.rows[t]["total_factor"]

\* a list without a repeated element
DuplicateFree(list) == Cardinality(Range(list)) = Len(list)

\* every value list, of the Generator's features and of the factors' declared
\* features, is duplicate-free, and the factors declare features of the Generator
WellFormed ==
    /\ \A i \in 1..Len(features) : DuplicateFree(features[i][2])
    /\ \A f \in factors :
          /\ \A i \in 1..Len(obj[f].features) : DuplicateFree(obj[f].features[i][2])
          /\ Range(Keys(obj[f].features)) \subseteq Range(Keys(features))

\* C3: with duplicate-free value lists and factors that declare features of
\* the Generator, the returned table has exactly one row per element of
\* date range x feature value lists: no row added, doubled or removed.
C3_RowSet ==
    Returned /\ WellFormed =>
        /\ Len(ret.val.rows) = Len(SkeletonRows)
        /\ \A i \in 1..Len(SkeletonRows) : Cardinality(RowsOn(SkeletonRows[i])) = 1

\* a returned table over two features with two factors, one of which leaves
\* skeleton rows uncovered
C3_Witness ==
    /\ Returned /\ WellFormed
    /\ Len(features) = 2
    /\ Cardinality(factors) >= 2
    /\ \E f \in factors : \E i \in 1..Len(SkeletonRows) : Uncovered(f, SkeletonRows[i])

\* the factor's own generate and its merge on the skeleton succeed
Merges(f) ==
    LET o == IF obj[f].apply_to_all THEN [obj[f] EXCEPT !.features = features] ELSE obj[f]
        g == generate(o, date_range[1], Some(date_range[Len(date_range)]), 0)
    IN  /\ g.err = ""
        /\ MergeKeys(o) \subseteq Range(g.val.cols)
        /\ MergeKeys(o) \subseteq SkeletonCols

\* C4 as claimed: with two factors of one col_name in the set, generate
\* raises DuplicateNameError, returns no table and leaves ts as it was.
C4_DuplicateNamesAbort ==
    [][ret'.op = "generate" /\ HasDuplicateNames(factors) =>
            /\ ret'.err = "DuplicateNameError"
            /\ ret'.val = EmptyFrame
            /\ ts' = ts]_vars

\* C4, amended: with two factors of one col_name in the set, generate raises
\* an error, returns no table and leaves ts as it was; the names are checked
\* after all merges, so the error is DuplicateNameError when every factor's
\* generate and merge succeed and the error of a failing factor otherwise.
C4_DuplicateNamesFail ==
    [][ret'.op = "generate" /\ HasDuplicateNames(factors) =>
            /\ ret'.err # ""
            /\ ret'.val = EmptyFrame
            /\ ts' = ts
            /\ (\A f \in factors : Merges(f)) <=> ret'.err = "DuplicateNameError"]_vars

\* generate raised DuplicateNameError for two factors that both merge
C4_Witness ==
    /\ ret.op = "generate"
    /\ ret.err = "DuplicateNameError"
    /\ \E f, g \in factors : f # g /\ Name(f) = Name(g) /\ Merges(f) /\ Merges(g)

-----------------------------------------------------------------------------
(* Properties of add_factor, update_factor and remove_factor *)

Names(S) == {Name(g) : g \in S}

\* C5: add_factor(f) raises FactorAlreadyExistsError exactly when a factor
\* of the set (f itself included) has f's col_name, and then the set is
\* unchanged; otherwise the set becomes the previous set plus f.
C5_AddFactor ==
    ret.op = "add_factor" =>
        /\ ret.err = "FactorAlreadyExistsError" <=> Name(ret.arg) \in Names(ret.before)
        /\ ret.err \in {"", "FactorAlreadyExistsError"}
        /\ ret.err # "" => factors = ret.before
        /\ ret.err = "" => factors = ret.before \cup {ret.arg}

\* add_factor refused a factor that is not in the set, for its name
C5_Witness ==
    /\ ret.op = "add_factor"
    /\ ret.err = "FactorAlreadyExistsError"
    /\ ret.arg \notin factors

\* C6: update_factor(f) never fails; afterwards the set, which is the
\* returned set, holds f, no other factor of f's col_name, and otherwise
\* exactly the former factors of another col_name.
C6_UpdateFactor ==
    ret.op = "update_factor" =>
        /\ ret.err = ""
        /\ ret.set = factors
        /\ ret.arg \in factors
        /\ \A g \in factors \ {ret.arg} : Name(g) # Name(ret.arg)
        /\ factors \ {ret.arg} = {g \in ret.before : Name(g) # Name(ret.arg)}

\* update_factor replaced another factor of the same name
C6_Witness ==
    /\ ret.op = "update_factor"
    /\ \E g \in ret.before : g # ret.arg /\ Name(g) = Name(ret.arg)
    /\ Cardinality(factors) >= 2

\* C7: remove_factor(f) removes exactly f when f is in the set; when it is
\* not, even with another factor of its col_name in the set, it fails with
\* KeyError and leaves the set unchanged.
C7_RemoveFactor ==
    ret.op = "remove_factor" =>
        IF ret.arg \in ret.before
        THEN ret.err = "" /\ factors = ret.before \ {ret.arg}
        ELSE ret.err = "KeyError" /\ factors = ret.before

\* remove_factor failed for a factor whose name is in the set
C7_Witness ==
    /\ ret.op = "remove_factor"
    /\ ret.err = "KeyError"
    /\ Name(ret.arg) \in Names(factors)

-----------------------------------------------------------------------------
(* Properties of factor.generate(start_date, end_date) *)

\* the last call was generate on a factor, with an end date after the start
FactorCalled == ret.op = "factor.generate"
Called == obj[ret.arg]

\* the key columns of the factor's table and the keys the claim expects:
\* the days of [start, end) x the declared feature values
KeyCols(o) == {o.date_col_name} \cup Range(Keys(o.features))
HalfOpenKeys(o, start_date, end_date) ==
    LET names == Keys(o.features)
        combos == product(Values(o.features))
    IN  {[c \in KeyCols(o) |->
            IF c = o.date_col_name THEN d ELSE combos[i][IndexOf(names, c)]] :
                d \in start_date..(end_date - 1), i \in 1..Len(combos)}

\* C8 as claimed: for every factor, generate(start, end) with start < end
\* returns exactly one row per day of [start, end) and declared feature
\* values combination.
C8_HalfOpenSpan ==
    FactorCalled /\ ~IsNone(ret.end) /\ ret.start < The(ret.end) =>
        LET o == Called
            expected == HalfOpenKeys(o, ret.start, The(ret.end))
        IN  /\ ret.err = ""
            /\ KeyCols(o) \subseteq Range(ret.val.cols)
            /\ Len(ret.val.rows) = Cardinality(expected)
            /\ {[c \in KeyCols(o) |-> ret.val.rows[t][c]] : t \in 1..Len(ret.val.rows)}
                  = expected

\* the classes with a load_data method: the subclasses of ExternalFactor
HasLoadData(o) == o.kind \in {"CountryGdpFactor", "EUIndustryProductFactor"}

\* C9 as claimed: for CountryGdpFactor, EUIndustryProductFactor and
\* HolidayFactor generate(start, end) returns the rows of the loaded table
\* with start <= date < end, and generate(start) the rows with date >= start,
\* without an error.
C9_ExternalData ==
    FactorCalled /\ Called.kind \in {"CountryGdpFactor", "EUIndustryProductFactor",
                                      "HolidayFactor"} =>
        /\ ret.err = ""
        /\ \A t \in 1..Len(ret.val.rows) :
              /\ ret.val.rows[t]["date"] >= ret.start
              /\ IsNone(ret.end) \/ ret.val.rows[t]["date"] < The(ret.end)
        /\ HasLoadData(Called) =>
              ret.val = DateSel(load_data(Called), "date", ret.start, ret.end)

\* C10 as claimed: the table a factor returns has the date column, one
\* column per declared feature under the name it has in factor.features, and
\* the col_name column.
C10_ColumnSchema ==
    FactorCalled /\ ret.err = "" =>
        /\ Range(ret.val.cols) = KeyCols(Called) \cup {Called.col_name}
        /\ Len(ret.val.cols) = Len(Called.features) + 2

-----------------------------------------------------------------------------
(* Properties of the factors a Generator shares with other Generators *)

\* the last call was Generator.generate
Generated == ret.op = "generate"

\* C11: a run of generate leaves each apply_to_all factor of the set either
\* as it found it (the run failed before it came to the factor) or with the
\* Generator's features; a run that returns a table has generated and merged
\* each of them with the Generator's features, so that afterwards
\* factor.features is the Generator's features and no skeleton row is without
\* a row of the factor, whatever features another Generator left in it.
C11_ApplyToAll ==
    Generated =>
        \A f \in factors : obj[f].apply_to_all =>
            /\ obj[f].features \in {features, ret.found[f].features}
            /\ Returned =>
                  /\ obj[f].features = features
                  /\ \A i \in 1..Len(SkeletonRows) : ~Uncovered(f, SkeletonRows[i])
                  /\ Name(f) \in Range(ret.val.cols)

\* generate returned a table for an apply_to_all factor in which another
\* Generator had left other features
C11_Witness ==
    /\ Returned
    /\ features # <<>>
    /\ \E f \in factors :
          /\ obj[f].apply_to_all
          /\ ret.found[f].features # <<>>
          /\ ret.found[f].features # features
          /\ obj[f].features = features

\* the factors whose values do not come from the random source
Deterministic(S) == \A f \in S : obj[f].kind \notin {"RandomFeatureFactor", "WhiteNoise"}

\* C13: of two successive generate calls on a Generator with deterministic
\* factors only, the second returns what the first returned: the same table
\* (columns, rows and values), or the same error.
C13_Idempotent ==
    [][ret.op = "generate" /\ ret'.op = "generate" /\ Deterministic(factors) =>
            /\ ret'.val = ret.val
            /\ ret'.err = ret.err]_vars

\* a second generate in a row returned a table of two deterministic factors,
\* the first call having stored its table
C13_Witness ==
    /\ Returned
    /\ ret.prev = "generate"
    /\ Deterministic(factors)
    /\ Cardinality(factors) >= 2
    /\ ~ts.none
    /\ \E t \in 1..Len(ret.val.rows) : ret.val.rows[t]["total_factor"] # ROne

-----------------------------------------------------------------------------
(* generate() run by two threads side by side, one statement at a time: the *)
(* skeleton, then per factor the assignment of f.features, f.generate and   *)
(* the merge, then the check of the names and the totals.  A thread runs    *)
(* generate() of the Generator itself or of another Generator that holds    *)
(* the same factor objects.                                                 *)

Threads == {1, 2}

\* the factor objects the Generators hold
ConcurrentIds == {"noise", "wk", "lin_f"}

\* a run of generate() about to start: the Generator it runs on ("self" or
\* "other") with its _features, the order in which it iterates the factors,
\* and its local variables ts (table) and df
NewRun(gen, feats, order) ==
    [gen |-> gen, features |-> feats, order |-> order, todo |-> order, pc |-> "start",
     table |-> EmptyFrame, df |-> EmptyFrame, stale |-> FALSE, err |-> "",
     val |-> EmptyFrame]

InitConcurrent ==
    /\ obj = Pool
    /\ factors \in {S \in SUBSET ConcurrentIds : Cardinality(S) <= MaxFactors}
    /\ features \in FeatureSets
    /\ date_range = pd_date_range(1, MaxDay)
    /\ base_value = RInt(5)
    /\ ts = NoTable
    /\ rng = 0
    /\ ret = NoCall
    /\ calls = 0
    /\ \E order \in IterationOrders(factors), other \in IterationOrders(factors),
          feats \in FeatureSets :
          threads = [t \in Threads |->
                        IF t = 1 \/ feats = features
                        THEN NewRun("self", features, order)
                        ELSE NewRun("other", feats, other)]

\* the factor has apply_to_all and its features are not those of the
\* Generator the run belongs to
Stale(me, f) == obj[f].apply_to_all /\ obj[f].features # me.features

\* the merge statement that also clears the features of an apply_to_all factor
after_merge_unbind(o, f) ==
    IF o[f].apply_to_all THEN [o EXCEPT ![f].features = <<>>] ELSE o

\* the factor objects after the merge statement: it writes no attribute of
\* the factor
after_merge(o, f) == o

\* the skeleton and the base_amount column
Start(t) ==
    /\ threads[t].pc = "start"
    /\ threads' = [threads EXCEPT ![t].table =
                        Skeleton(threads[t].features, date_range, base_value),
                                  ![t].pc = IF threads[t].todo = <<>> THEN "finish" ELSE "bind"]
    /\ UNCHANGED <<obj, factors, features, date_range, base_value, ts, rng, ret, calls>>

\* if f.apply_to_all: f.features = self._features
Bind(t) ==
    /\ threads[t].pc = "bind"
    /\ obj' = rebind(obj, Head(threads[t].todo), threads[t].features)
    /\ threads' = [threads EXCEPT ![t].pc = "generate"]
    /\ UNCHANGED <<factors, features, date_range, base_value, ts, rng, ret, calls>>

\* df = f.generate(start_date=date_range[0], end_date=date_range[-1])
Gen(t) ==
    /\ threads[t].pc = "generate"
    /\ \E f \in {Head(threads[t].todo)} :
       \E g \in {generate(obj[f], date_range[1], Some(date_range[Len(date_range)]), rng)} :
          /\ rng' = g.rng
          /\ threads' = [threads EXCEPT ![t].stale = @ \/ Stale(threads[t], f),
                                        ![t].df = g.val,
                                        ![t].err = g.err,
                                        ![t].pc = IF g.err # "" THEN "done" ELSE "merge"]
    /\ UNCHANGED <<obj, factors, features, date_range, base_value, ts, ret, calls>>

\* ts = ts.merge(df, how="left", on=list(f.features.keys()) + ["date"]).fillna(1)
Merge(t) ==
    /\ threads[t].pc = "merge"
    /\ \E f \in {Head(threads[t].todo)} :
       \E m \in {merge_fillna(threads[t].table, threads[t].df, MergeKeys(obj[f]))} :
          /\ obj' = after_merge(obj, f)
          /\ threads' = [threads EXCEPT ![t].stale = @ \/ Stale(threads[t], f),
                                        ![t].table = m.val,
                                        ![t].err = m.err,
                                        ![t].todo = Tail(@),
                                        ![t].pc = IF m.err # "" THEN "done"
                                                  ELSE IF Tail(threads[t].todo) = <<>>
                                                  THEN "finish" ELSE "bind"]
    /\ UNCHANGED <<factors, features, date_range, base_value, ts, rng, ret, calls>>

\* the check of the names, the totals, self._ts = ts and return ts
FinishRun(t) ==
    /\ threads[t].pc = "finish"
    /\ \E res \in {Finish([err |-> "", val |-> threads[t].table, obj |-> obj, rng |-> rng],
                           threads[t].order)} :
          /\ threads' = [threads EXCEPT ![t].pc = "done", ![t].err = res.err,
                                        ![t].val = res.val]
          /\ ts' = IF res.err = "" /\ threads[t].gen = "self" THEN Table(res.val) ELSE ts
    /\ UNCHANGED <<obj, factors, features, date_range, base_value, rng, ret, calls>>

NextConcurrent ==
    \E t \in Threads :
        \/ Start(t)
        \/ Bind(t)
        \/ Gen(t)
        \/ Merge(t)
        \/ FinishRun(t)

SpecConcurrent == InitConcurrent /\ [][NextConcurrent]_vars

\* what the run returns when no other run is under way
Sequential(t) ==
    Generator_generate(threads[t].order, Pool, threads[t].features, date_range, base_value, 0)

\* a table without its random draws: the columns, and the key cells of the rows
Shape(df, feats) ==
    LET keys == ({"date"} \cup Range(Keys(feats))) \cap Range(df.cols)
    IN  [cols |-> df.cols,
         keys |-> [i \in 1..Len(df.rows) |-> [c \in keys |-> df.rows[i][c]]]]

Done(t) == threads[t].pc = "done"

\* the run has ended with another outcome than the sequential one
Differs(t) ==
    /\ Done(t)
    /\ \/ threads[t].err # Sequential(t).err
       \/ Shape(threads[t].val, threads[t].features)
             # Shape(Sequential(t).val, threads[t].features)

\* the run generated or merged an apply_to_all factor with other features
\* than its Generator's, or ended with another outcome than the sequential one
Raced(t) == threads[t].stale \/ Differs(t)

SameGenerator == \A t \in Threads : threads[t].gen = "self"

-----------------------------------------------------------------------------
(* A factor under configuration: one constructor call with any arguments,   *)
(* then setter calls on the object it made.                                 *)

\* the object the constructor made
ConfigId == "t"

\* parameter sets for LinearTrend, the second with a record without offset
LinComplete ==
    << <<"Netherlands", << <<"coef", RInt(2)>>, <<"offset", RZero>> >> >> >>
LinIncomplete ==
    << <<"Netherlands", << <<"coef", RInt(2)>>, <<"offset", RZero>> >> >>,
       <<"Italy", << <<"coef", ROne>> >> >> >>

\* a complete parameter set for two countries
LinTwo ==
    << <<"Netherlands", << <<"coef", RInt(2)>>, <<"offset", RZero>> >> >>,
       <<"Italy", << <<"coef", ROne>>, <<"offset", Half>> >> >> >>

\* parameter sets for SinusoidalFactor, the second with a record without mean
SinComplete == << <<"s1", SinRecord(RZero)>> >>
SinIncomplete ==
    << <<"s1", SinRecord(RZero)>>,
       <<"s2", << <<"wavelength", RInt(4)>>, <<"amplitude", ROne>>, <<"phase", RZero>> >> >> >>

\* standard deviations per feature value, for one feature and for two
NoiseOne == << <<"country", << <<"Netherlands", Rat(1, 20)>>, <<"Italy", RZero>> >> >> >>
NoiseTwo == NoiseOne \o << <<"store", << <<"s1", Rat(1, 10)>> >> >> >>

\* the arguments of the constructor calls
LinearTrendArgs ==
    [coef : {None, Some(RZero), Some(ROne)},
     offset : {None, Some(RZero), Some(Half)},
     feature : {None, Some(""), Some("country")},
     feature_values : {None, Some(<<>>), Some(LinComplete), Some(LinIncomplete)}]

SinusoidalFactorArgs ==
    [feature : {None, Some(""), Some("store")},
     feature_values : {None, Some(<<>>), Some(SinComplete), Some(SinIncomplete)}]

\* given: the keyword arguments the caller supplies; the others take the
\* default of the signature
WhiteNoiseArgs ==
    {a \in [given : SUBSET {"stdev_factor", "feature_values"},
            stdev_factor : {None, Some(RZero), Some(Rat(1, 10))},
            feature_values : {None, Some(<<>>), Some(NoiseOne), Some(NoiseTwo)}] :
        /\ "stdev_factor" \notin a.given => a.stdev_factor = None
        /\ "feature_values" \notin a.given => a.feature_values = None}

\* the default of WhiteNoise's stdev_factor parameter: 0.05
DefaultStdev == Rat(1, 20)

InitConfig ==
    /\ obj = <<>>
    /\ factors = {}
    /\ features = <<>>
    /\ date_range = pd_date_range(1, MaxDay)
    /\ base_value = ROne
    /\ ts = NoTable
    /\ rng \in 0..(Len(RandomSource) - 1)
    /\ ret = NoCall
    /\ calls = 0
    /\ threads = <<>>

\* a constructor call: the object exists when __init__ raised nothing
Construct(kind, a, made) ==
    /\ calls = 0
    /\ obj' = IF made.err = "" THEN (ConfigId :> made.val) ELSE obj
    /\ ret' = [NoCall EXCEPT !.op = kind, !.arg = a, !.err = made.err, !.found = obj]
    /\ calls' = 1
    /\ UNCHANGED <<factors, features, date_range, base_value, ts, rng, threads>>

NewLinearTrend(a) ==
    Construct("LinearTrend", a,
              LinearTrend(a.coef, a.offset, a.feature, a.feature_values, "lin_trend"))

NewSinusoidalFactor(a) ==
    Construct("SinusoidalFactor", a,
              SinusoidalFactor(None, ROne, RZero, ROne, "sinusoidal_factor", "date",
                               a.feature, a.feature_values))

NewWhiteNoise(a) ==
    Construct("WhiteNoise", a,
              WhiteNoise(IF "stdev_factor" \in a.given THEN a.stdev_factor
                         ELSE Some(DefaultStdev),
                         a.feature_values, "white_noise"))

\* a setter call on the object: the assignment "object.name = value"
Setter(name, value, done) ==
    /\ calls \in 1..MaxOps
    /\ obj' = (ConfigId :> done.obj)
    /\ ret' = [NoCall EXCEPT !.op = name, !.arg = value, !.err = done.err, !.found = obj]
    /\ calls' = calls + 1
    /\ UNCHANGED <<factors, features, date_range, base_value, ts, rng, threads>>

IsA(kind) == obj # <<>> /\ obj[ConfigId].kind = kind

SetCoef(value) ==
    /\ IsA("LinearTrend")
    /\ Setter("coef", value, LinearTrend_set_coef(obj[ConfigId], value))

SetOffset(value) ==
    /\ IsA("LinearTrend")
    /\ Setter("offset", value, LinearTrend_set_offset(obj[ConfigId], value))

SetFeatureValues(value) ==
    /\ IsA("LinearTrend")
    /\ Setter("feature_values", value, LinearTrend_set_feature_values(obj[ConfigId], value))

SetSinusoidalFeatureValues(value) ==
    /\ IsA("SinusoidalFactor")
    /\ Setter("feature_values", value,
              SinusoidalFactor_set_feature_values(obj[ConfigId], value))

SetFeature(value) ==
    /\ IsA("LinearTrend") \/ IsA("SinusoidalFactor")
    /\ Setter("feature", value, set_feature(obj[ConfigId], value))

SetNoiseFeatureValues(value) ==
    /\ IsA("WhiteNoise")
    /\ Setter("feature_values", value, WhiteNoise_set_feature_values(obj[ConfigId], value))

RandomFeatureFactorArgs ==
    [feature_values : {<<"s1", "s2">>, <<"s1", "s2", "s3">>},
     min_factor_value : {ROne, RInt(2)},
     max_factor_value : {ROne, RInt(2), RInt(10)}]

NewRandomFeatureFactor(a) ==
    Construct("RandomFeatureFactor", a,
              RandomFeatureFactor("store", a.feature_values, a.min_factor_value,
                                  a.max_factor_value, "random_feature_factor"))

\* generate(start_date, end_date) on the object
ConfigGenerate(start_date, end_date) ==
    /\ calls \in 1..MaxOps
    /\ obj # <<>>
    /\ \E g \in {generate(obj[ConfigId], start_date, end_date, rng)} :
          /\ ret' = [NoCall EXCEPT !.op = "factor.generate", !.arg = ConfigId,
                                   !.start = start_date, !.end = end_date,
                                   !.err = g.err, !.val = g.val, !.found = obj]
          /\ rng' = g.rng
    /\ calls' = calls + 1
    /\ UNCHANGED <<obj, factors, features, date_range, base_value, ts, threads>>

NextConfig ==
    \/ \E a \in RandomFeatureFactorArgs : NewRandomFeatureFactor(a)
    \/ \E start_date \in {0, 1} : ConfigGenerate(start_date, Some(MaxDay))
    \/ \E a \in LinearTrendArgs : NewLinearTrend(a)
    \/ \E a \in SinusoidalFactorArgs : NewSinusoidalFactor(a)
    \/ \E a \in WhiteNoiseArgs : NewWhiteNoise(a)
    \/ \E v \in {None, Some(RZero), Some(ROne)} : SetCoef(v)
    \/ \E v \in {None, Some(RZero), Some(Half)} : SetOffset(v)
    \/ \E v \in {None, Some(<<>>), Some(LinComplete), Some(LinIncomplete), Some(LinTwo)} :
          SetFeatureValues(v)
    \/ \E v \in {Some("country"), Some("store")} : SetFeature(v)
    \/ \E v \in {None, Some(NoiseOne), Some(NoiseTwo)} : SetNoiseFeatureValues(v)
    \/ \E v \in {None, Some(<<>>), Some(SinComplete), Some(SinIncomplete)} :
          SetSinusoidalFeatureValues(v)

SpecConfig == InitConfig /\ [][NextConfig]_vars

-----------------------------------------------------------------------------
(* Properties of the constructors and setters *)

\* the object before and after the last call
Before == ret.found[ConfigId]
After == obj[ConfigId]

\* the last call was the feature_values setter of an object of the class
SetOn(kind) == ret.op = "feature_values" /\ Before.kind = kind

\* the arguments name a feature and give a parameter set
PerFeature(a) ==
    ~IsNone(a.feature) /\ The(a.feature) # "" /\ ~IsNone(a.feature_values)

\* the parameter set has a record without one of the names
Incomplete(fv, names) ==
    \E i \in 1..Len(fv) : \E k \in names : ~HasKey(fv[i][2], k)

\* C14: a parameter set with a record that lacks coef or offset (LinearTrend)
\* or one of wavelength, amplitude, phase, mean (SinusoidalFactor) makes the
\* constructor of the per-feature-value form raise AttributeError, and no
\* object is made; it makes the feature_values setter of a per-feature-value
\* object raise AttributeError, and the object keeps the set it had.
C14_Completeness ==
    /\ ret.op = "LinearTrend" /\ PerFeature(ret.arg)
          /\ Incomplete(The(ret.arg.feature_values), {"coef", "offset"})
          => ret.err = "AttributeError" /\ obj = <<>>
    /\ ret.op = "SinusoidalFactor" /\ PerFeature(ret.arg)
          /\ Incomplete(The(ret.arg.feature_values), VARIABLES_)
          => ret.err = "AttributeError" /\ obj = <<>>
    /\ SetOn("LinearTrend") /\ IsNone(Before.coef) /\ IsNone(Before.offset)
          /\ ~IsNone(Before.feature_values)
          /\ ~IsNone(ret.arg) /\ Incomplete(The(ret.arg), {"coef", "offset"})
          => ret.err = "AttributeError" /\ After = Before
    /\ SetOn("SinusoidalFactor") /\ ~IsNone(Before.feature_values)
          /\ ~IsNone(ret.arg) /\ Incomplete(The(ret.arg), VARIABLES_)
          => ret.err = "AttributeError" /\ After = Before

\* the setter refused an incomplete set on a LinearTrend that holds a
\* complete one, and the object still holds it
C14_Witness ==
    /\ SetOn("LinearTrend")
    /\ Before.feature = Some("country")
    /\ Before.feature_values = Some(LinComplete)
    /\ ret.arg = Some(LinIncomplete)
    /\ ret.err = "AttributeError"
    /\ After.feature_values = Some(LinComplete)

\* C15: a LinearTrend never has coef and offset set (to any number, 0
\* included) together with feature_values (any mapping, the empty one
\* included), and a setter call that raised left the object as it was.
C15_MutualExclusion ==
    IsA("LinearTrend") =>
        /\ ~(~IsNone(After.coef) /\ ~IsNone(After.offset) /\ ~IsNone(After.feature_values))
        /\ ret.op \in {"coef", "offset", "feature_values"} /\ ret.err # "" => After = Before

-----------------------------------------------------------------------------
(* Properties of the factors' generate, continued *)

\* the last call was generate of the object f
Ran(f) == ret.op = "factor.generate" /\ ret.arg = f

\* C16: generate of a WhiteNoise with standard deviations per value of one
\* feature raises nothing and returns one row per date and value of the
\* feature; the rows of a value whose standard deviation is 0 hold exactly 1.
C16_PerFeatureNoise ==
    Ran("noise_f") =>
        /\ ret.err = ""
        /\ Len(ret.val.rows) = 2 * Len(get_datetime_index(ret.start, ret.end))
        /\ \A i \in 1..Len(ret.val.rows) :
              ret.val.rows[i]["country"] = "Italy" => ret.val.rows[i]["white_noise"] = ROne

-----------------------------------------------------------------------------
(* Properties of the constructors and setters, continued *)

\* the caller gave the keyword argument k a value
Supplied(a, k) == k \in a.given /\ ~IsNone(a[k])

\* C17: WhiteNoise(feature_values={feature: {value: stdev}}) without
\* stdev_factor makes a factor for that feature, not applied to all;
\* WhiteNoise(stdev_factor=s) alone makes a factor applied to all; the
\* constructor raises AttributeError only when both or neither are given or
\* feature_values names more than one feature.
C17_ConstructionModes ==
    ret.op = "WhiteNoise" =>
        LET a == ret.arg
            sd == Supplied(a, "stdev_factor")
            fv == Supplied(a, "feature_values")
        IN  /\ ~sd /\ fv /\ Len(The(a.feature_values)) = 1
                  => /\ ret.err = ""
                     /\ ~After.apply_to_all
                     /\ Keys(After.features) = Keys(The(a.feature_values))
            /\ sd /\ ~fv => ret.err = "" /\ After.apply_to_all
            /\ ret.err = "AttributeError"
                  => \/ sd /\ fv
                     \/ ~sd /\ ~fv
                     \/ fv /\ Len(The(a.feature_values)) > 1

-----------------------------------------------------------------------------
(* Properties of the factors' generate, continued *)

\* the number of dates of the last call, and a cell of the returned table
Dates == Len(get_datetime_index(ret.start, ret.end))
Cell(i, c) == ret.val.rows[i][c]

\* the line 1 + offset + coef * t / n
TrendAt(coef, offset, n, t) == RAdd(RAdd(ROne, offset), RDiv(RMul(coef, RInt(t)), RInt(n)))

\* amplitude * sin(2 * pi * (t + phase) / 4) + mean for an integer phase: the
\* sine of a whole number of quarter turns is 0, 1, 0, -1
WaveAt(amplitude, phase, mean, t) ==
    RAdd(RMul(amplitude, <<RZero, ROne, RZero, RInt(-1)>>[((t + phase.n) % 4) + 1]), mean)

\* the rows of a factor without feature values: row i is day i - 1 of the
\* range and holds at(i - 1) in column c
GlobalRows(c, at(_)) ==
    /\ Len(ret.val.rows) = Dates
    /\ \A i \in 1..Dates : Cell(i, "date") = ret.start + (i - 1) /\ Cell(i, c) = at(i - 1)

\* the rows of a factor with feature values fv of the feature: the dates in
\* order, for each date the values in the order of fv, and at(record, t) in
\* column c
FeatureRows(c, feature, fv, at(_, _)) ==
    /\ Len(ret.val.rows) = Dates * Len(fv)
    /\ \A t \in 0..(Dates - 1) : \A j \in 1..Len(fv) :
          LET i == t * Len(fv) + j
          IN  /\ Cell(i, "date") = ret.start + t
              /\ Cell(i, feature) = fv[j][1]
              /\ Cell(i, c) = at(fv[j][2], t)

\* C18: LinearTrend and SinusoidalFactor, with and without feature values,
\* evaluate the row of the first date at t = 0 and the row of the k-th
\* following day at t = k, so the first date holds 1 + offset and
\* amplitude * sin(2 * pi * phase / wavelength) + mean; the rows of one date
\* come in the order in which the feature values were declared.
C18_ZeroBasedOffset ==
    /\ Ran("lin") /\ ret.err = "" =>
          LET o == obj["lin"]
              at(t) == TrendAt(The(o.coef), The(o.offset), Dates, t)
          IN  GlobalRows(o.col_name, at) /\ Cell(1, o.col_name) = RAdd(ROne, The(o.offset))
    /\ Ran("lin_f") /\ ret.err = "" =>
          LET o == obj["lin_f"]
              at(rec, t) == TrendAt(Get(rec, "coef"), Get(rec, "offset"), Dates, t)
          IN  /\ FeatureRows(o.col_name, The(o.feature), The(o.feature_values), at)
              /\ Cell(1, o.col_name) = RAdd(ROne, Get(The(o.feature_values)[1][2], "offset"))
    /\ Ran("sin") /\ ret.err = "" =>
          LET o == obj["sin"]
              at(t) == WaveAt(o.amplitude, o.phase, o.mean, t)
          IN  GlobalRows(o.col_name, at) /\ Cell(1, o.col_name) = o.mean
    /\ Ran("sin_f") /\ ret.err = "" =>
          LET o == obj["sin_f"]
              at(rec, t) == WaveAt(Get(rec, "amplitude"), Get(rec, "phase"), Get(rec, "mean"), t)
          IN  /\ FeatureRows(o.col_name, The(o.feature), The(o.feature_values), at)
              /\ Cell(1, o.col_name) = ROne
              /\ Cell(2, o.col_name) = RInt(2)

\* a range of three dates or more of the SinusoidalFactor with two feature
\* values: phase 0 gives the mean and phase wavelength / 4 gives amplitude +
\* mean on the first date, and the values differ on the third date too
C18_Witness ==
    /\ Ran("sin_f") /\ ret.err = ""
    /\ Dates >= 3
    /\ Cell(1, "store") = "s1" /\ Cell(1, "product_seasonal_trend_factor") = ROne
    /\ Cell(2, "store") = "s3" /\ Cell(2, "product_seasonal_trend_factor") = RInt(2)
    /\ Cell(5, "date") = ret.start + 2
    /\ Cell(5, "product_seasonal_trend_factor") = ROne
    /\ Cell(6, "product_seasonal_trend_factor") = RZero

\* the day of the week of a date by name (1 January 1970, day 0, was a
\* Thursday) and the number of a day of the week, Monday = 0 .. Sunday = 6
DayName(d) ==
    <<"Thursday", "Friday", "Saturday", "Sunday", "Monday", "Tuesday", "Wednesday">>[(d % 7) + 1]
DayNumber ==
    [Monday |-> 0, Tuesday |-> 1, Wednesday |-> 2, Thursday |-> 3, Friday |-> 4,
     Saturday |-> 5, Sunday |-> 6]

\* the mapping of WeekdayFactor when none is supplied
DefaultWeekdays(name) ==
    CASE name = "Friday" -> Rat(115, 100)
      [] name \in {"Saturday", "Sunday"} -> Rat(13, 10)
      [] OTHER -> ROne

\* the value a mapping gives a day of the week: 1.0 for a day it does not list
Override(m, name) == IF HasKey(m, DayNumber[name]) THEN Get(m, DayNumber[name]) ELSE ROne

WeekdayIds == {"wk", "wk_s", "wk_c"}

\* C19: every row of WeekdayFactor.generate holds m(d) * intensity_scale for
\* the day of the week d of its date (Monday = 0 .. Sunday = 6), m being the
\* mapping with 1.0 for the days it does not list; without a supplied
\* mapping m is Friday 1.15, Saturday 1.30, Sunday 1.30 and 1.0 otherwise.
C19_WeekdayValue ==
    \A f \in WeekdayIds : Ran(f) /\ ret.err = "" =>
        \A i \in 1..Len(ret.val.rows) :
            LET name == DayName(Cell(i, "date"))
                o == obj[f]
            IN  /\ Cell(i, o.col_name) = RMul(Override(o.factor_values, name), o.intensity_scale)
                /\ f \in {"wk", "wk_s"} =>
                      Cell(i, o.col_name) = RMul(DefaultWeekdays(name), o.intensity_scale)

\* the default mapping scaled by 2 over a range with all days of the week:
\* a Friday row with 2.3, a Sunday row with 2.6 and a Monday row with 2
C19_Witness ==
    /\ Ran("wk_s") /\ ret.err = ""
    /\ \E i, j, k \in 1..Len(ret.val.rows) :
          /\ DayName(Cell(i, "date")) = "Friday"
          /\ Cell(i, "weekend_trend_factor") = Rat(23, 10)
          /\ DayName(Cell(j, "date")) = "Sunday"
          /\ Cell(j, "weekend_trend_factor") = Rat(26, 10)
          /\ DayName(Cell(k, "date")) = "Monday"
          /\ Cell(k, "weekend_trend_factor") = RInt(2)

\* C20: WeekdayFactor(factor_values={1: 1.5, 2: 1.5}) gives 1.5 times
\* intensity_scale on every Monday and Tuesday of the range and 1 times
\* intensity_scale on every other day.
C20_DocumentedExample ==
    Ran("wk_c") /\ ret.err = "" =>
        \A i \in 1..Len(ret.val.rows) :
            Cell(i, "early_week_boost_factor") =
                RMul(IF DayName(Cell(i, "date")) \in {"Monday", "Tuesday"}
                     THEN Rat(3, 2) ELSE ROne,
                     obj["wk_c"].intensity_scale)

-----------------------------------------------------------------------------
(* Properties of the constructors and setters, continued *)

\* the last call was generate on an object of the class and it returned
Generated_(kind) == Ran(ConfigId) /\ ret.err = "" /\ Before.kind = kind

\* C21: RandomFeatureFactor.__init__ raises ValueError exactly when
\* min_factor_value > max_factor_value.  One generate call gives every
\* declared feature value one value for all dates: the rows of a date follow
\* the declared values, a row holds what the row of the same feature value
\* holds on the first date, every value lies in [min_factor_value,
\* max_factor_value], and is min_factor_value when the two are equal.
C21_RandomFeatureFactor ==
    /\ ret.op = "RandomFeatureFactor" =>
          /\ ret.err = "ValueError" <=>
                ~RLeq(ret.arg.min_factor_value, ret.arg.max_factor_value)
          /\ ret.err \in {"", "ValueError"}
          /\ ret.err # "" => obj = <<>>
    /\ Generated_("RandomFeatureFactor") =>
          LET o == Before
              V == Len(o.feature_values)
              rows == ret.val.rows
          IN  /\ Len(rows) = Dates * V
              /\ \A t \in 0..(Dates - 1) : \A j \in 1..V :
                    /\ rows[t * V + j]["store"] = o.feature_values[j]
                    /\ rows[t * V + j][o.col_name] = rows[j][o.col_name]
              /\ \A i, k \in 1..Len(rows) :
                    rows[i]["store"] = rows[k]["store"] => rows[i][o.col_name] = rows[k][o.col_name]
              /\ \A i \in 1..Len(rows) :
                    /\ RLeq(o.min_factor_value, rows[i][o.col_name])
                    /\ RLeq(rows[i][o.col_name], o.max_factor_value)
                    /\ o.min_factor_value = o.max_factor_value
                          => rows[i][o.col_name] = o.min_factor_value

\* three dates of a factor on [1, 10] whose two feature values drew
\* different values
C21_Witness ==
    /\ Generated_("RandomFeatureFactor")
    /\ Before.min_factor_value = ROne /\ Before.max_factor_value = RInt(10)
    /\ Len(Before.feature_values) = 2
    /\ Len(ret.val.rows) >= 6
    /\ Cell(1, "random_feature_factor") # Cell(2, "random_feature_factor")
    /\ Cell(5, "random_feature_factor") = Cell(1, "random_feature_factor")

-----------------------------------------------------------------------------
(* Properties of the factors' generate, continued *)

HolidayIds == {"hol", "hol_n"}

\* the first country of the factor has a holiday on 1 January that the
\* special factors do not name
NewYearHoliday(o) ==
    \E i \in 1..Len(Workalendar) :
        /\ Workalendar[i].class = o.features[1][2][1]
        /\ HasKey(Workalendar[i].holidays, 0)
        /\ ~HasKey(o.special_holiday_factors, Get(Workalendar[i].holidays, 0))

\* C22: when HolidayFactor.generate starts on 1 January and that day is a
\* holiday of the first country without a special factor, the first row is
\* the row of that day and its value is holiday_factor within 0.01.
C22_HolidayFirstRow ==
    \A f \in HolidayIds :
        Ran(f) /\ ret.err = "" /\ ret.start % YearLen = 0 /\ ret.val.rows # <<>>
               /\ NewYearHoliday(obj[f]) =>
            /\ Cell(1, "date") = ret.start
            /\ RLeq(RSub(obj[f].holiday_factor, Rat(1, 100)), Cell(1, obj[f].col_name))
            /\ RLeq(Cell(1, obj[f].col_name), RAdd(obj[f].holiday_factor, Rat(1, 100)))

\* a range from 1 January whose first row holds holiday_factor = 2 and whose
\* second row, a day without holiday, is smoothed to a value between 1 and 2
C22_Witness ==
    /\ Ran("hol") /\ ret.err = "" /\ ret.start % YearLen = 0
    /\ Len(ret.val.rows) >= 2
    /\ Cell(1, "holiday_trend_factor") = RInt(2)
    /\ Cell(2, "date") = ret.start + 1
    /\ Cell(2, "holiday_trend_factor") \notin {ROne, RInt(2)}
    /\ RLeq(ROne, Cell(2, "holiday_trend_factor"))
    /\ RLeq(Cell(2, "holiday_trend_factor"), RInt(2))

\* the calendar modules whose name contains the lower-cased country name
CalendarMatches(country_name) ==
    {i \in 1..Len(Workalendar) : Contains(Workalendar[i].modname, lower(country_name))}

\* C23: HolidayFactor.generate(start, end) raises ValueError and returns no
\* table when a name of its country list does not map to exactly one
\* calendar, and raises nothing when every name maps to exactly one.
C23_CountryLookup ==
    \A f \in HolidayIds \cup {"hol_lc", "hol_amb"} :
        Ran(f) /\ ~IsNone(ret.end) =>
            LET names == obj[f].features[1][2]
            IN  IF \E i \in 1..Len(names) : Cardinality(CalendarMatches(names[i])) # 1
                THEN ret.err = "ValueError" /\ ret.val.rows = <<>>
                ELSE ret.err = ""

-----------------------------------------------------------------------------
(* Properties of Generator.generate, continued *)

\* C24: after Generator.generate with a WeekdayFactor in the set, the rows
\* of every date of the date range, the last one included, hold the
\* factor's own value mapping(weekday) * intensity_scale.
C24_LastDayCoverage ==
    Returned /\ "wk" \in ret.before =>
        \A i \in 1..Len(ret.val.rows) :
            Cell(i, Name("wk")) =
                RMul(DefaultWeekdays(DayName(Cell(i, "date"))), obj["wk"].intensity_scale)

\* C25: add_factor, update_factor and remove_factor, whether they return or
\* raise, take a factor set with pairwise distinct col_names to one with
\* pairwise distinct col_names, a call that raises leaves the set as it
\* was, and generate on such a set does not raise DuplicateNameError.
C25_NamesStayUnique ==
    [][~HasDuplicateNames(factors) =>
          /\ ret'.op \in {"add_factor", "update_factor", "remove_factor"} =>
                /\ ~HasDuplicateNames(factors')
                /\ ret'.err # "" => factors' = factors
          /\ ret'.op = "generate" => ret'.err # "DuplicateNameError"]_vars

\* add_factor refused a factor whose col_name a member of the set has
C25_Witness ==
    /\ ret.op = "add_factor" /\ ret.err = "FactorAlreadyExistsError"
    /\ ret.arg \notin ret.before
    /\ \E g \in ret.before : Name(g) = Name(ret.arg)
    /\ ~HasDuplicateNames(ret.before)
    /\ factors = ret.before

-----------------------------------------------------------------------------
(* Properties of the constructors and setters, continued *)

\* the features a factor with this feature and these feature values declares
Declared(o) == << <<The(o.feature), Keys(The(o.feature_values))>> >>

\* C26: a LinearTrend or SinusoidalFactor that was constructed with a
\* feature and feature values (it has declared features) declares, after
\* every setter call, exactly its current feature with the keys of its
\* current feature_values, and generate returns rows for exactly these
\* feature values.
C26_FeaturesInStep ==
    \A kind \in {"LinearTrend", "SinusoidalFactor"} :
        /\ IsA(kind) /\ After.features # <<>> => After.features = Declared(After)
        /\ Generated_(kind) /\ Before.features # <<>> =>
              {ret.val.rows[i][ColumnName(Before.feature)] : i \in 1..Len(ret.val.rows)}
                  = Range(Keys(The(Before.feature_values)))

\* C27: the feature_values setter of SinusoidalFactor accepts a non-empty
\* mapping whose records all have wavelength, amplitude, phase and mean,
\* and the object holds the new mapping afterwards.
C27_SetterAcceptsComplete ==
    SetOn("SinusoidalFactor") /\ TruthyDict(ret.arg) /\ ~Incomplete(The(ret.arg), VARIABLES_)
        => ret.err = "" /\ After.feature_values = ret.arg

-----------------------------------------------------------------------------
(* Properties of Generator.generate, continued *)

\* C28: Generator.generate with a factor whose date column is not named
\* "date" raises nothing, and every row holds the factor's value for the
\* row's date, as it would for a factor with the default date column.
C28_CustomDateColumn ==
    ret.op = "generate" /\ ret.before = {"sin_d"} =>
        /\ ret.err = ""
        /\ \A i \in 1..Len(ret.val.rows) :
              Cell(i, Name("sin_d")) =
                  WaveAt(obj["sin_d"].amplitude, obj["sin_d"].phase, obj["sin_d"].mean,
                         Cell(i, "date") - date_range[1])

-----------------------------------------------------------------------------
(* The construction of a Generator: Generator(factors, features,            *)
(* date_range, base_value) with features and date_range given or left out,  *)
(* then generate().  Here date_range holds what __init__ stored: None or    *)
(* the range that was given.                                                *)

GeneratorArgs ==
    [factors : SUBSET {"lin", "wk", "noise"},
     features : {None} \cup {Some(f) : f \in FeatureSets},
     date_range : {None, Some(pd_date_range(1, MaxDay)), Some(pd_date_range(0, 1))},
     base_value : {ROne, RInt(5)}]

InitEngine ==
    /\ obj = Pool
    /\ factors = {}
    /\ features = <<>>
    /\ date_range = None
    /\ base_value = ROne
    /\ ts = NoTable
    /\ rng = 0
    /\ ret = NoCall
    /\ calls = 0
    /\ threads = <<>>

NewGenerator(a) ==
    /\ calls = 0
    /\ \E g \in {Generator_init(a.factors, a.features, a.date_range, a.base_value)} :
          /\ factors' = g.factors
          /\ features' = g.features
          /\ date_range' = g.date_range
          /\ base_value' = g.base_value
          /\ ts' = g.ts
    /\ ret' = [NoCall EXCEPT !.op = "Generator", !.arg = a]
    /\ calls' = 1
    /\ UNCHANGED <<obj, rng, threads>>

EngineGenerate ==
    /\ calls \in 1..MaxOps
    /\ \E order \in Orders :
          \E g \in {Generator_generate_stored(order, obj, features, date_range, base_value, rng)} :
              /\ obj' = g.obj
              /\ rng' = g.rng
              /\ ts' = IF g.err = "" THEN Table(g.val) ELSE ts
              /\ ret' = [NoCall EXCEPT !.op = "generate", !.arg = ret.arg, !.err = g.err,
                                       !.val = g.val, !.before = factors, !.found = obj,
                                       !.order = order, !.prev = ret.op]
    /\ calls' = calls + 1
    /\ UNCHANGED <<factors, features, date_range, base_value, threads>>

NextEngine ==
    \/ \E a \in GeneratorArgs : NewGenerator(a)
    \/ EngineGenerate

SpecEngine == InitEngine /\ [][NextEngine]_vars

\* C29: a Generator constructed without date_range holds the 50 days from
\* 1970-01-01 and generate() on it returns 50 dates times the feature
\* combinations; constructed without features it holds the empty feature
\* set and returns one row per date.
C29_DefaultDateRange ==
    /\ ret.op \in {"Generator", "generate"} /\ IsNone(ret.arg.date_range) =>
          date_range = Some(pd_date_range_periods(0, DefaultPeriods))
    /\ ret.op \in {"Generator", "generate"} /\ IsNone(ret.arg.features) => features = <<>>
    /\ ret.op = "generate" /\ IsNone(ret.arg.date_range) /\ factors = {} =>
          /\ ret.err = ""
          /\ Len(ret.val.rows) = DefaultPeriods * Len(product(Values(features)))
    /\ ret.op = "generate" /\ IsNone(ret.arg.features) /\ ret.err = "" =>
          Len(ret.val.rows) = Len(The(date_range))

-----------------------------------------------------------------------------
(* Properties of Generator.generate, continued *)

\* C30: a call of Generator.generate, whether it returns or raises, leaves
\* the factor set, the features, the date range and the base value of the
\* Generator as they were, and leaves every factor object as it was except
\* for the features of the factors with apply_to_all; it stores the table
\* in ts when it returns and leaves ts as it was when it raises.
C30_GenerateFrame ==
    [][ret'.op = "generate" =>
          /\ factors' = factors
          /\ features' = features
          /\ date_range' = date_range
          /\ base_value' = base_value
          /\ \A f \in FactorIds :
                IF obj[f].apply_to_all
                THEN [obj'[f] EXCEPT !.features = obj[f].features] = obj[f]
                ELSE obj'[f] = obj[f]
          /\ ts' = IF ret'.err = "" THEN Table(ret'.val) ELSE ts]_vars

\* generate returned a table for a set with a WhiteNoise applied to all,
\* whose features it wrote, and another factor, which it left alone
C30_Witness ==
    /\ Returned
    /\ "noise" \in factors /\ "lin_f" \in factors
    /\ features # <<>>
    /\ ret.found["noise"].features = <<>>
    /\ obj["noise"].features = features
    /\ obj["lin_f"] = ret.found["lin_f"]
    /\ ts = Table(ret.val)

====
